---- MODULE Spec2Model ----
(***************************************************************************)
(* Model of the cannibal_core ingestion pipeline:                          *)
(*   listener -> asyncio.Queue -> Processor._worker -> handle_message      *)
(*   (store raw post, dedup check, index add, rewrite, output, update),    *)
(* and of Deduplicator.check as a function of the index's answer.          *)
(*                                                                         *)
(* Conventions.  Optional values (Python None / value) are sequences of    *)
(* length 0 or 1.  Similarities, distances and the threshold are in        *)
(* hundredths (0.85 is 85).  A Python object is a function from attribute  *)
(* names to values, so that reading an attribute the object does not have  *)
(* is visible (AttributeError).  Texts are sequences of characters.        *)
(***************************************************************************)
EXTENDS Integers, Sequences, FiniteSets, TLC

\* ------------------------------------------------------------- bounds
\* Number of messages the event source delivers in one run.
MaxDeliveries == 3
\* Last clock tick (of 12 hours) of one run.
MaxClock == 3
\* Number of external calls (embed, rewrite, output append, outcome
\* update, index query, index add) that fail in one run.
MaxFaults == 1
\* Settings.processor_queue_size of the modelled run (asyncio.Queue maxsize).
processor_queue_size == 2
\* Settings.max_chars of the modelled run.
max_chars == 2
\* Longest index answer enumerated for Deduplicator.check.
MaxNeighbours == 2

\* ---------------------------------------------------- program constants
\* Settings.duplicate_threshold, 0.85, in hundredths.
duplicate_threshold == 85
\* VectorStore.query_similar(n_results=5)
n_results == 5
\* The literal 1 of "1 - best_distance", in hundredths.
One == 100
\* timedelta(hours=24) of Deduplicator.check, in clock ticks of 12 hours.
DedupWindow == 2

\* Settings.processor_workers of the modelled run: two worker tasks.
Workers == {"w1", "w2"}
NoWorker == "none"

None == <<>>
Some(x) == <<x>>
IsNone(o) == o = <<>>
Val(o) == o[1]

HasAttr(obj, a) == a \in DOMAIN obj

\* ------------------------------------------------------------- payloads
\* The dicts the listener enqueues: channel_name, channel_id (optional),
\* message_id, text.  P1 and P2 are two messages of one channel with texts
\* that agree on their first two characters; P3 is P1's message delivered
\* without the numeric id (and with another text).
P1 == [channel_name |-> "chan", channel_id |-> Some(123), message_id |-> 7,
       text |-> <<1, 1>>]
P2 == [channel_name |-> "chan", channel_id |-> Some(123), message_id |-> 8,
       text |-> <<1, 1, 2>>]
P3 == [channel_name |-> "chan", channel_id |-> None, message_id |-> 7,
       text |-> <<2, 2>>]
Payloads == {P1, P2, P3}

\* str() of the numeric channel ids that occur.
Str(n) == CASE n = 123 -> "123" [] n = 0 -> "0" [] OTHER -> "?"

\* Variant: the text taken whole.
Truncate_Whole(text) == text

\* text[: max_chars]
Truncate(text) ==
    IF Len(text) <= max_chars THEN text ELSE SubSeq(text, 1, max_chars)

\* f"{channel_id or channel_name}:{message_id}": a channel id of None or 0
\* is falsy and gives the name.
DocId(channel_name, channel_id, message_id) ==
    IF IsNone(channel_id) \/ Val(channel_id) = 0
    THEN <<channel_name, message_id>>
    ELSE <<Str(Val(channel_id)), message_id>>

\* ------------------------------------------------- external capabilities
RECURSIVE SumSeq(_)
SumSeq(s) == IF s = <<>> THEN 0 ELSE Head(s) + SumSeq(Tail(s))

\* LLMClient.embed: the embedding is a function of the text sent; texts one
\* character apart are 15 hundredths apart.
Embed(text) == 15 * SumSeq(text)

Abs(x) == IF x < 0 THEN -x ELSE x

\* Cosine distance of two embeddings, 0..200 hundredths.
Distance(e1, e2) == IF Abs(e1 - e2) > 200 THEN 200 ELSE Abs(e1 - e2)

\* LLMClient.rewrite: the answer for a source text.
Rewrite(text, style_profile) == <<"rewritten", text>>
\* ---------------------------------------------------------- VectorStore
\* An index entry: ids, embeddings, documents, metadatas of collection.add.
IndexEntry(doc_id, embedding, document, metadata) ==
    [id |-> doc_id, embedding |-> embedding, document |-> document,
     metadata |-> metadata]

IndexIds(idx) == {idx[i].id : i \in 1..Len(idx)}

\* The methods class VectorStore defines.
VectorStoreMethods == {"add", "query_similar"}

\* collection.add: an id the collection already holds is ignored.
CollectionAdd(idx, entry) ==
    IF entry.id \in IndexIds(idx) THEN idx ELSE Append(idx, entry)

\* Variant: a query without the where clause.
WhereSince_NoFilter(idx, since_ts) == idx

\* where={"created_at": {"$gte": since_ts}}
RECURSIVE WhereSince(_, _)
WhereSince(idx, since_ts) ==
    IF idx = <<>> THEN <<>>
    ELSE IF Head(idx).metadata.created_at >= since_ts
         THEN <<Head(idx)>> \o WhereSince(Tail(idx), since_ts)
         ELSE WhereSince(Tail(idx), since_ts)

\* Position of the entry of s nearest to embedding; the earliest such entry
\* on a tie (the index's native order).
RECURSIVE NearestPos(_, _, _, _)
NearestPos(s, embedding, i, best) ==
    IF i > Len(s) THEN best
    ELSE IF Distance(s[i].embedding, embedding)
              < Distance(s[best].embedding, embedding)
         THEN NearestPos(s, embedding, i + 1, i)
         ELSE NearestPos(s, embedding, i + 1, best)

RemoveAt(s, i) == SubSeq(s, 1, i - 1) \o SubSeq(s, i + 1, Len(s))

\* The n nearest entries of s, nearest first.
RECURSIVE Nearest(_, _, _)
Nearest(s, embedding, n) ==
    IF n = 0 \/ s = <<>> THEN <<>>
    ELSE LET b == NearestPos(s, embedding, 1, 1)
         IN  <<s[b]>> \o Nearest(RemoveAt(s, b), embedding, n - 1)

\* What collection.query answers for one query embedding.
CollectionQuery(idx, embedding, n, since_ts) ==
    LET hits == Nearest(WhereSince(idx, since_ts), embedding, n)
    IN  [ids |-> << [i \in 1..Len(hits) |-> hits[i].id] >>,
         distances |->
             << [i \in 1..Len(hits) |->
                    Distance(hits[i].embedding, embedding)] >>]

\* What query_similar returns when the query raised.
QueryFailed == [distances |-> << <<>> >>, ids |-> << <<>> >>]

\* Variant: a query_similar without the except clause.
OnQueryError_Propagate == "propagate"

\* query_similar's "except Exception": log, answer with empty lists.
OnQueryError == "empty_answer"

\* Variant: an add without the except clause.
OnAddError_Propagate == "propagate"

\* add's "except Exception": log, return normally.
OnAddError == "swallow"

\* --------------------------------------------------------- Deduplicator
\* Variant: a strict comparison with the threshold.
AtLeastThreshold_Strict(similarity, threshold) == similarity > threshold

\* "best_similarity >= self._threshold"
AtLeastThreshold(similarity, threshold) == similarity >= threshold

\* The neighbour Deduplicator.check reads: distances[0][0], ids[0][0].
BestPos(distances) == 1

\* Variant: a check that hands the embedding back for a unique text only.
Check_EmbeddingWhenUnique(embedding, result, threshold) ==
    LET found == result.distances # <<>> /\ result.distances[1] # <<>>
        is_duplicate ==
            found /\ AtLeastThreshold(One - result.distances[1][1], threshold)
    IN  [is_duplicate |-> is_duplicate,
         similarity |-> IF found THEN Some(One - result.distances[1][1])
                        ELSE None,
         matched_id |-> IF found THEN Some(result.ids[1][1]) ELSE None,
         embedding |-> IF is_duplicate THEN 0 ELSE embedding]

\* Deduplicator.check after the embedding and the index answer are there.
Check(embedding, result, threshold) ==
    LET distances == result.distances
        ids == result.ids
        found == distances # <<>> /\ distances[1] # <<>>
        pos == BestPos(distances[1])
        best_similarity ==
            IF found THEN Some(One - distances[1][pos]) ELSE None
        matched_id ==
            IF found /\ ids # <<>> /\ ids[1] # <<>>
            THEN Some(ids[1][pos]) ELSE None
    IN  [is_duplicate |->
             /\ ~IsNone(best_similarity)
             /\ AtLeastThreshold(Val(best_similarity), threshold),
         similarity |-> best_similarity,
         matched_id |-> matched_id,
         embedding |-> embedding]
\* ------------------------------------------------------------- database
\* The columns the ORM maps for Post (class Post): a commit writes these
\* and nothing else, and a fetched Post object has these attributes and
\* nothing else.
PostColumns == {"id", "channel_id", "telegram_msg_id", "text", "created_at"}

\* select(Channel).where(telegram_id == channel_id), or .where(name ==
\* channel_name) when channel_id is None; scalar_one_or_none().
SelectChannel(chs, channel_name, channel_id) ==
    LET hit == IF ~IsNone(channel_id)
               THEN {c \in chs : c.telegram_id = channel_id}
               ELSE {c \in chs : c.name = channel_name}
    IN  IF hit = {} THEN None ELSE Some(CHOOSE c \in hit : TRUE)

\* unique=True on Channel.name and on Channel.telegram_id (NULLs differ).
ChannelConflict(chs, channel_name, channel_id) ==
    \E c \in chs :
        \/ c.name = channel_name
        \/ ~IsNone(channel_id) /\ c.telegram_id = channel_id

\* Variant: table posts without its unique constraint.
PostConflict_NoConstraint(ps, channel_db_id, message_id) == FALSE

\* UniqueConstraint("channel_id", "telegram_msg_id")
PostConflict(ps, channel_db_id, message_id) ==
    \E r \in ps : r.channel_id = channel_db_id /\ r.telegram_msg_id = message_id

\* Integer primary key of the next inserted row (no row is ever deleted).
NextId(rows) == Cardinality(rows) + 1

\* for key, value in fields.items(): setattr(post, key, value)
SetAttrs(obj, fields) ==
    [a \in DOMAIN obj \cup DOMAIN fields |->
        IF a \in DOMAIN fields THEN fields[a] ELSE obj[a]]

\* What a commit writes of a Post object: its mapped columns.
Persist(obj) == [a \in PostColumns |-> obj[a]]

\* Processor._update_post: fetch by id, set the attributes, commit.  A post
\* id that is not found changes nothing.
UpdatePostRows(ps, post_id, fields) ==
    LET hit == {r \in ps : r.id = post_id}
    IN  IF hit = {} THEN ps
        ELSE LET row == CHOOSE r \in hit : TRUE
             IN  (ps \ {row}) \cup {Persist(SetAttrs(row, fields))}

\* Variant: line 69 reading a missing processed_at as None
\* (getattr(post, "processed_at", None)).
ProcessedCheck_MissingIsNone(post, created) ==
    IF created THEN "proceed"
    ELSE IF HasAttr(post, "processed_at") /\ ~IsNone(post.processed_at)
         THEN "skip"
    ELSE "proceed"

\* Line 69 of handle_message, "if not created and post.processed_at is not
\* None": "proceed", "skip", or the exception reading the attribute raises.
ProcessedCheck(post, created) ==
    IF created THEN "proceed"
    ELSE IF ~HasAttr(post, "processed_at") THEN "AttributeError"
    ELSE IF ~IsNone(post.processed_at) THEN "skip"
    ELSE "proceed"

\* ---------------------------------------------------------------- queue
\* Variant: a queue constructed without maxsize.
QueueFull_Unbounded(q) == FALSE

\* asyncio.Queue.full(): a maxsize <= 0 is unbounded.
QueueFull(q) ==
    IF processor_queue_size <= 0 THEN FALSE
    ELSE Len(q) >= processor_queue_size

\* Variant: a queue that hands out the item put last.
QueueGet_Lifo(q) ==
    [item |-> q[Len(q)], rest |-> SubSeq(q, 1, Len(q) - 1)]

\* asyncio.Queue.get on a queue that is not empty: the item put first
\* (_get is popleft on the deque, _put is append), and what stays queued.
QueueGet(q) == [item |-> Head(q), rest |-> Tail(q)]

\* Variant: a _worker that starts handle_message as a task of its own and
\* goes back to queue.get at once.
AwaitsHandleMessage_Spawns == FALSE

\* _worker's "await self.handle_message(payload)": the loop reaches the next
\* queue.get only when the call has ended.
AwaitsHandleMessage == TRUE

\* Variant: one session kept open over the whole of handle_message, its
\* write lock with it.
WriterAfterCommit_Held(w) == w

\* Who holds SQLite's write lock once _store_raw_post's commit (or rollback)
\* is through: nobody.
WriterAfterCommit(w) == NoWorker

\* Variant: header, text and separator written by three write calls.
OutputWrites_Three(channel_name, message_id, text) ==
    << [channel_name |-> channel_name, message_id |-> message_id,
        text |-> text, parts |-> <<"header">>],
       [channel_name |-> channel_name, message_id |-> message_id,
        text |-> text, parts |-> <<"text">>],
       [channel_name |-> channel_name, message_id |-> message_id,
        text |-> text, parts |-> <<"separator">>] >>

\* The write calls _write_output makes on the file it opened for appending:
\* one handle.write of the payload "header, text, separator".
OutputWrites(channel_name, message_id, text) ==
    << [channel_name |-> channel_name, message_id |-> message_id,
        text |-> text, parts |-> <<"header", "text", "separator">>] >>

\* Variant: a _worker without the except clause, ended by the exception.
AfterException_WorkerEnds == "ended"

\* Where Processor._worker continues after handle_message raised: the
\* except clause logs, finally calls task_done, and the loop goes on.
AfterException == "idle"

\* ---------------------------------------------------------------- state
VARIABLES
    clock,      \* time, in ticks of 12 hours
    delivered,  \* messages the listener was handed so far
    putters,    \* payloads of the enqueue calls suspended in queue.put
    accepted,   \* enqueue calls that returned
    queue,      \* Processor._queue
    wpc,        \* per worker: where in _worker / handle_message it is
    wloc,       \* per worker: the locals of its handle_message call
    channels,   \* committed rows of table channels
    posts,      \* committed rows of table posts
    dbWriter,   \* the session holding SQLite's write lock, or NoWorker
    index,      \* the Chroma collection, in insertion order
    output,     \* the records appended to the output file
    calls,      \* per payload: calls of check, query_similar, add and
                \* generate made for it, and the index calls that failed
    done,       \* the handle_message calls that ended, in order
    faults,     \* external calls that failed so far
    dpc,        \* Deduplicator.check alone: "call" or "ret"
    dIn,        \* ... its index answer
    dOut,       \* ... its DedupResult
    rpc,        \* one LLMClient call: "attempt", "sleep", "returned", "raised"
    rFn,        \* ... the method called, "embed" or "rewrite"
    rProvider,  \* ... LLMClient._provider
    rAttempt,   \* ... tenacity's attempt_number
    rTrace,     \* ... what each attempt so far ended in
    rSleep,     \* ... the waits before the retries, in seconds
    rOut,       \* ... what the caller got
    spc,        \* main(): the call it is at, "running" or "aborted"
    sEnv,       \* ... what the run finds: provider, engine, database, backend
    sEngine,    \* ... database._engine is set
    sWorkers,   \* ... worker tasks Processor.start created
    sListening, \* ... the listener's handler is registered
    sError,     \* ... the exception that ended main
    sEnq,       \* ... events the listener enqueued
    sHandled,   \* ... events the workers took from the queue
    fpc,        \* one incoming message: "recv" or "done"
    fMode,      \* ... who handles it: the listener or backfill
    fWords,     \* ... settings.ad_stop_words
    fMsg,       \* ... message.message, None or a text
    fOut,       \* ... what was done with it
    ppc,        \* build_style_profiles: "build", "built" or "got"
    pLimit,     \* ... its limit (settings.style_profile_posts)
    pChannels,  \* ... rows of table channels it finds
    pPosts,     \* ... rows of table posts it finds
    pCache,     \* ... the StyleProfileCache it returned
    pKey,       \* ... the arguments of one StyleProfileCache.get
    pGot,       \* ... what that get returned
    cpc,        \* Settings(): "construct", "constructed" or "rejected"
    cEnv,       \* ... the fields as given
    cOut,       \* ... the settings object, or the error raised
    bpc,        \* _backfill_channel: where in the function it is
    bEntity,    \* ... the entity get_entity returned
    bMsgs,      \* ... the messages iter_messages yields, in that order
    bPos,       \* ... the message the loop is at
    bEmbeddings, \* ... store_embeddings
    bChannel,   \* ... channel.id
    bLog,       \* ... the calls made so far, in order
    bError,     \* ... the exception that left the function, if any
    kSetting,   \* Processor.start: settings.processor_workers
    kWorkers,   \* ... Processor._workers, the tasks by the call creating them
    kStarts,    \* ... calls of start so far
    lpc,        \* _lead_label: "call" or "returned"
    lText,      \* ... its argument
    lOut        \* ... what it returned

pipeVars == <<clock, delivered, putters, accepted, queue, wpc, wloc, channels,
              posts, dbWriter, index, output, calls, done, faults>>
dedupVars == <<dpc, dIn, dOut>>
\* The variables of the components modelled on their own.
retryVars == <<rpc, rFn, rProvider, rAttempt, rTrace, rSleep, rOut>>
startVars ==
    <<spc, sEnv, sEngine, sWorkers, sListening, sError, sEnq, sHandled>>
filterVars == <<fpc, fMode, fWords, fMsg, fOut>>
profileVars == <<ppc, pLimit, pChannels, pPosts, pCache, pKey, pGot>>
configVars == <<cpc, cEnv, cOut>>
backfillVars ==
    <<bpc, bEntity, bMsgs, bPos, bEmbeddings, bChannel, bLog, bError>>
poolVars == <<kSetting, kWorkers, kStarts>>
leadVars == <<lpc, lText, lOut>>
moreVars == <<backfillVars, poolVars, leadVars>>
restVars == <<profileVars, configVars, moreVars>>
sideVars == <<dedupVars, retryVars, startVars, filterVars, restVars>>
vars == <<pipeVars, sideVars>>

IdleLoc ==
    [payload |-> None, text |-> <<>>, channel_db_id |-> 0,
     pending_channel |-> None, post |-> None, created |-> None,
     answer |-> None, dedup |-> None, rewritten |-> None, writes |-> None,
     started |-> 0]

NoCalls ==
    [check |-> 0, query |-> 0, query_failed |-> 0, add |-> 0,
     add_failed |-> 0, generate |-> 0]

PipeStart ==
    /\ clock = 0
    /\ delivered = 0
    /\ putters = <<>>
    /\ accepted = 0
    /\ queue = <<>>
    /\ wpc = [w \in Workers |-> "idle"]
    /\ wloc = [w \in Workers |-> IdleLoc]
    /\ channels = {}
    /\ posts = {}
    /\ dbWriter = NoWorker
    /\ index = <<>>
    /\ output = <<>>
    /\ calls = [p \in Payloads |-> NoCalls]
    /\ done = <<>>

PipeInit == PipeStart /\ faults = 0

DedupIdle ==
    /\ dpc = "off"
    /\ dIn = QueryFailed
    /\ dOut = None

RetryIdle ==
    /\ rpc = "off"
    /\ rFn = "embed"
    /\ rProvider = "openai"
    /\ rAttempt = 0
    /\ rTrace = <<>>
    /\ rSleep = <<>>
    /\ rOut = None

StartIdle ==
    /\ spc = "off"
    /\ sEnv = [provider |-> "openai", engine |-> "ok", database |-> "ok",
               backend |-> "up", telegram |-> "up"]
    /\ sEngine = FALSE
    /\ sWorkers = 0
    /\ sListening = FALSE
    /\ sError = None
    /\ sEnq = 0
    /\ sHandled = 0

NoOutcome ==
    [enqueued |-> FALSE, stored |-> FALSE, embedded |-> FALSE,
     error |-> "none"]

FilterIdle ==
    /\ fpc = "off"
    /\ fMode = "listener"
    /\ fWords = <<>>
    /\ fMsg = None
    /\ fOut = NoOutcome

NoCache == [by_channel_id |-> <<>>, by_channel_name |-> <<>>]

ProfileIdle ==
    /\ ppc = "off"
    /\ pLimit = 0
    /\ pChannels = {}
    /\ pPosts = {}
    /\ pCache = NoCache
    /\ pKey = <<>>
    /\ pGot = None

ConfigIdle ==
    /\ cpc = "off"
    /\ cEnv = <<>>
    /\ cOut = None

BackfillIdle ==
    /\ bpc = "off"
    /\ bEntity = [id |-> None, username |-> ""]
    /\ bMsgs = <<>>
    /\ bPos = 1
    /\ bEmbeddings = FALSE
    /\ bChannel = 0
    /\ bLog = <<>>
    /\ bError = None

PoolIdle ==
    /\ kSetting = 0
    /\ kWorkers = <<>>
    /\ kStarts = 0

LeadIdle ==
    /\ lpc = "off"
    /\ lText = <<>>
    /\ lOut = None

MoreIdle == BackfillIdle /\ PoolIdle /\ LeadIdle

RestIdle == ProfileIdle /\ ConfigIdle /\ MoreIdle

Init ==
    PipeInit /\ DedupIdle /\ RetryIdle /\ StartIdle /\ FilterIdle /\ RestIdle
\* ------------------------------------------------------------- listener
\* Listener._on_new_message hands payload p to Processor.enqueue, which is
\* queue.put: the item is put at once when the queue is not full, and the
\* caller is suspended otherwise.
Deliver(p) ==
    /\ delivered < MaxDeliveries
    /\ delivered' = delivered + 1
    /\ IF QueueFull(queue)
       THEN /\ putters' = Append(putters, p)
            /\ UNCHANGED <<queue, accepted>>
       ELSE /\ queue' = Append(queue, p)
            /\ accepted' = accepted + 1
            /\ UNCHANGED putters
    /\ UNCHANGED <<clock, wpc, wloc, channels, posts, dbWriter, index, output,
                   calls, done, faults, sideVars>>

\* A suspended queue.put resumes once the queue has room, puts its item and
\* returns.
PutResume(i) ==
    /\ i \in 1..Len(putters)
    /\ ~QueueFull(queue)
    /\ queue' = Append(queue, putters[i])
    /\ putters' = RemoveAt(putters, i)
    /\ accepted' = accepted + 1
    /\ UNCHANGED <<clock, delivered, wpc, wloc, channels, posts, dbWriter,
                   index, output, calls, done, faults, sideVars>>

\* Time passes.  A tick is 12 hours and a handle_message call takes seconds
\* (the longest waits are the client's retries), so ticks fall between
\* calls.
Tick ==
    /\ clock < MaxClock
    /\ \A w \in Workers : wpc[w] = "idle"
    /\ clock' = clock + 1
    /\ UNCHANGED <<delivered, putters, accepted, queue, wpc, wloc, channels,
                   posts, dbWriter, index, output, calls, done, faults,
                   sideVars>>

\* --------------------------------------------------------------- worker
Loc(w) == wloc[w]
Payload(w) == Val(wloc[w].payload)

DoneEntry(w, result, error) ==
    [worker |-> w, payload |-> Payload(w), created |-> wloc[w].created,
     started |-> wloc[w].started, result |-> result, error |-> error]

\* handle_message returned: task_done, back to queue.get.
Return(w, result) ==
    /\ done' = Append(done, DoneEntry(w, result, "none"))
    /\ wpc' = [wpc EXCEPT ![w] = "idle"]
    /\ wloc' = [wloc EXCEPT ![w] = IdleLoc]

\* handle_message raised: _worker's except clause, then task_done.
Raise(w, error) ==
    /\ done' = Append(done, DoneEntry(w, "failed", error))
    /\ wpc' = [wpc EXCEPT ![w] = AfterException]
    /\ wloc' = [wloc EXCEPT ![w] = IdleLoc]

Goto(w, pc, loc) ==
    /\ wpc' = [wpc EXCEPT ![w] = pc]
    /\ wloc' = [wloc EXCEPT ![w] = loc]
    /\ UNCHANGED done

\* An external call may fail while the run's fault budget lasts.
MayFail == faults < MaxFaults

\* The workers in the order Processor.start created their tasks.
WorkerOrder == <<"w1", "w2">>
Rank(w) == CHOOSE i \in DOMAIN WorkerOrder : WorkerOrder[i] = w

\* Of the workers waiting in queue.get, which hold nothing and are alike,
\* the first one is given the item.
FirstWaiting(w) ==
    \A v \in Workers : wpc[v] = "idle" => Rank(w) <= Rank(v)

\* payload = await self._queue.get(); handle_message truncates the text.
Dequeue(w) ==
    /\ AwaitsHandleMessage => wpc[w] = "idle"
    /\ FirstWaiting(w)
    /\ queue # <<>>
    /\ queue' = QueueGet(queue).rest
    /\ Goto(w, "select_channel",
            [IdleLoc EXCEPT !.payload = Some(QueueGet(queue).item),
                            !.text = Truncate(QueueGet(queue).item.text),
                            !.started = Len(done)])
    /\ UNCHANGED <<clock, delivered, putters, accepted, channels, posts,
                   dbWriter, index, output, calls, faults, sideVars>>

\* _get_or_create_channel: the select.
SelectChannelStep(w) ==
    /\ wpc[w] = "select_channel"
    /\ LET p == Payload(w)
           channel == SelectChannel(channels, p.channel_name, p.channel_id)
       IN  IF IsNone(channel)
           THEN Goto(w, "flush_channel", Loc(w))
           ELSE Goto(w, "commit_post",
                     [Loc(w) EXCEPT !.channel_db_id = Val(channel).id])
    /\ UNCHANGED <<clock, delivered, putters, accepted, queue, channels,
                   posts, dbWriter, index, output, calls, faults, sideVars>>

\* _get_or_create_channel: session.add(channel); session.flush().  The
\* INSERT takes SQLite's write lock and is refused on a unique conflict;
\* the IntegrityError leaves _store_raw_post, whose try covers the commit
\* only.
FlushChannel(w) ==
    /\ wpc[w] = "flush_channel"
    /\ dbWriter = NoWorker
    /\ LET p == Payload(w)
       IN  IF ChannelConflict(channels, p.channel_name, p.channel_id)
           THEN /\ Raise(w, "IntegrityError")
                /\ UNCHANGED dbWriter
           ELSE /\ Goto(w, "commit_post",
                        [Loc(w) EXCEPT
                            !.channel_db_id = NextId(channels),
                            !.pending_channel =
                                Some([id |-> NextId(channels),
                                      name |-> p.channel_name,
                                      telegram_id |-> p.channel_id,
                                      created_at |-> clock])])
                /\ dbWriter' = w
    /\ UNCHANGED <<clock, delivered, putters, accepted, queue, channels,
                   posts, index, output, calls, faults, sideVars>>

\* What follows _store_raw_post in handle_message: line 69.
AfterStore(w, post, created) ==
    LET loc == [Loc(w) EXCEPT !.post = Some(post), !.created = Some(created),
                              !.pending_channel = None]
        verdict == ProcessedCheck(post, created)
    IN  CASE verdict = "proceed" -> Goto(w, "embed", loc)
          [] verdict = "skip" ->
                /\ done' = Append(done,
                       [DoneEntry(w, "skipped", "none")
                            EXCEPT !.created = Some(created)])
                /\ wpc' = [wpc EXCEPT ![w] = "idle"]
                /\ wloc' = [wloc EXCEPT ![w] = IdleLoc]
          [] OTHER ->
                /\ done' = Append(done,
                       [DoneEntry(w, "failed", verdict)
                            EXCEPT !.created = Some(created)])
                /\ wpc' = [wpc EXCEPT ![w] = AfterException]
                /\ wloc' = [wloc EXCEPT ![w] = IdleLoc]

\* _store_raw_post: session.add(post); commit and refresh, or on
\* IntegrityError rollback and fetch the existing row.
CommitPost(w) ==
    /\ wpc[w] = "commit_post"
    /\ dbWriter \in {w, NoWorker}
    /\ dbWriter' = WriterAfterCommit(w)
    /\ LET p == Payload(w)
           cid == Loc(w).channel_db_id
       IN  IF PostConflict(posts, cid, p.message_id)
           THEN /\ UNCHANGED <<channels, posts>>
                /\ AfterStore(w,
                       CHOOSE r \in posts : /\ r.channel_id = cid
                                            /\ r.telegram_msg_id = p.message_id,
                       FALSE)
           ELSE LET post == [id |-> NextId(posts), channel_id |-> cid,
                             telegram_msg_id |-> p.message_id,
                             text |-> Loc(w).text, created_at |-> clock]
                IN  /\ posts' = posts \cup {post}
                    /\ channels' =
                          IF IsNone(Loc(w).pending_channel) THEN channels
                          ELSE channels \cup {Val(Loc(w).pending_channel)}
                    /\ AfterStore(w, post, TRUE)
    /\ UNCHANGED <<clock, delivered, putters, accepted, queue, index, output,
                   calls, faults, sideVars>>
Count(w, what) ==
    [calls EXCEPT ![Payload(w)][what] = calls[Payload(w)][what] + 1]

\* Deduplicator.check: embedding = await self._llm_client.embed(text).
\* A backend failure (after the client's retries) leaves handle_message.
EmbedStep(w) ==
    /\ wpc[w] = "embed"
    /\ calls' = Count(w, "check")
    /\ \/ /\ Goto(w, "query",
                  [Loc(w) EXCEPT !.dedup =
                      Some([embedding |-> Embed(Loc(w).text)])])
          /\ UNCHANGED faults
       \/ /\ MayFail
          /\ faults' = faults + 1
          /\ Raise(w, "BackendError")
    /\ UNCHANGED <<clock, delivered, putters, accepted, queue, channels,
                   posts, dbWriter, index, output, sideVars>>

\* Deduplicator.check: query_similar over the trailing 24 hours (a query
\* that raises answers with empty lists), then the decision; handle_message
\* branches on dedup.is_duplicate.
QueryStep(w) ==
    /\ wpc[w] = "query"
    /\ \E failed \in {FALSE, TRUE} :
        /\ failed => MayFail
        /\ faults' = IF failed THEN faults + 1 ELSE faults
        /\ calls' = [calls EXCEPT
               ![Payload(w)].query = @ + 1,
               ![Payload(w)].query_failed = IF failed THEN @ + 1 ELSE @]
        /\ LET embedding == Val(Loc(w).dedup).embedding
               result == IF failed THEN QueryFailed
                         ELSE CollectionQuery(index, embedding, n_results,
                                              clock - DedupWindow)
               dedup == Check(embedding, result, duplicate_threshold)
           IN  IF failed /\ OnQueryError # "empty_answer"
               THEN Raise(w, "BackendError")
               ELSE Goto(w, IF dedup.is_duplicate THEN "mark_duplicate"
                            ELSE "index_add",
                         [Loc(w) EXCEPT !.answer = Some(result),
                                        !.dedup = Some(dedup)])
    /\ UNCHANGED <<clock, delivered, putters, accepted, queue, channels,
                   posts, dbWriter, index, output, sideVars>>

\* An _update_post whose commit has something to write needs the write lock.
UpdateAllowed(post_id, fields) ==
    UpdatePostRows(posts, post_id, fields) # posts => dbWriter = NoWorker

DuplicateFields(w) ==
    [is_duplicate |-> TRUE,
     similarity |-> Val(Loc(w).dedup).similarity,
     duplicate_of |-> Val(Loc(w).dedup).matched_id,
     processed_at |-> Some(clock)]

UniqueFields(w) ==
    [rewritten_text |-> Loc(w).rewritten,
     is_duplicate |-> FALSE,
     similarity |-> Val(Loc(w).dedup).similarity,
     duplicate_of |-> Val(Loc(w).dedup).matched_id,
     processed_at |-> Some(clock)]

\* The duplicate branch: _update_post(is_duplicate=True, ...); return.
MarkDuplicate(w) ==
    /\ wpc[w] = "mark_duplicate"
    /\ \/ /\ UpdateAllowed(Val(Loc(w).post).id, DuplicateFields(w))
          /\ posts' = UpdatePostRows(posts, Val(Loc(w).post).id,
                                     DuplicateFields(w))
          /\ Return(w, "duplicate")
          /\ UNCHANGED faults
       \/ /\ MayFail
          /\ faults' = faults + 1
          /\ Raise(w, "DatabaseError")
          /\ UNCHANGED posts
    /\ UNCHANGED <<clock, delivered, putters, accepted, queue, channels,
                   dbWriter, index, output, calls, sideVars>>

\* await self._vector_store.add(doc_id, dedup.embedding, text, metadata):
\* VectorStore.add logs and swallows a failure of collection.add.
IndexAdd(w) ==
    /\ wpc[w] = "index_add"
    /\ LET p == Payload(w)
           entry == IndexEntry(
               DocId(p.channel_name, p.channel_id, p.message_id),
               Val(Loc(w).dedup).embedding, Loc(w).text,
               [channel |-> p.channel_name, message_id |-> p.message_id,
                created_at |-> clock])
       IN  \/ /\ index' = CollectionAdd(index, entry)
              /\ calls' = Count(w, "add")
              /\ Goto(w, "generate", Loc(w))
              /\ UNCHANGED faults
           \/ /\ MayFail
              /\ faults' = faults + 1
              /\ calls' = [calls EXCEPT ![Payload(w)].add = @ + 1,
                                        ![Payload(w)].add_failed = @ + 1]
              /\ IF OnAddError = "swallow"
                 THEN Goto(w, "generate", Loc(w))
                 ELSE Raise(w, "BackendError")
              /\ UNCHANGED index
    /\ UNCHANGED <<clock, delivered, putters, accepted, queue, channels,
                   posts, dbWriter, output, sideVars>>

\* rewritten = await self._brain.generate(text, style_profile)
Generate(w) ==
    /\ wpc[w] = "generate"
    /\ calls' = Count(w, "generate")
    /\ \/ /\ Goto(w, "write_output",
                  [Loc(w) EXCEPT !.rewritten =
                      Some(Rewrite(Loc(w).text, None))])
          /\ UNCHANGED faults
       \/ /\ MayFail
          /\ faults' = faults + 1
          /\ Raise(w, "BackendError")
    /\ UNCHANGED <<clock, delivered, putters, accepted, queue, channels,
                   posts, dbWriter, index, output, sideVars>>

\* await self._write_output(channel_name, message_id, rewritten): one step
\* for each write call on the file, the calls of other workers' threads
\* falling anywhere between them.
WriteOutput(w) ==
    /\ wpc[w] = "write_output"
    /\ \/ /\ LET todo == IF IsNone(Loc(w).writes)
                          THEN OutputWrites(Payload(w).channel_name,
                                            Payload(w).message_id,
                                            Val(Loc(w).rewritten))
                          ELSE Val(Loc(w).writes)
             IN  /\ output' = Append(output, Head(todo))
                 /\ IF Tail(todo) = <<>>
                    THEN Goto(w, "update_post",
                              [Loc(w) EXCEPT !.writes = None])
                    ELSE Goto(w, "write_output",
                              [Loc(w) EXCEPT !.writes = Some(Tail(todo))])
          /\ UNCHANGED faults
       \/ /\ MayFail
          /\ faults' = faults + 1
          /\ Raise(w, "OSError")
          /\ UNCHANGED output
    /\ UNCHANGED <<clock, delivered, putters, accepted, queue, channels,
                   posts, dbWriter, index, calls, sideVars>>

\* The unique branch's _update_post(rewritten_text=..., ...).
UpdatePost(w) ==
    /\ wpc[w] = "update_post"
    /\ \/ /\ UpdateAllowed(Val(Loc(w).post).id, UniqueFields(w))
          /\ posts' = UpdatePostRows(posts, Val(Loc(w).post).id,
                                     UniqueFields(w))
          /\ Return(w, "processed")
          /\ UNCHANGED faults
       \/ /\ MayFail
          /\ faults' = faults + 1
          /\ Raise(w, "DatabaseError")
          /\ UNCHANGED posts
    /\ UNCHANGED <<clock, delivered, putters, accepted, queue, channels,
                   dbWriter, index, output, calls, sideVars>>

WorkerStep(w) ==
    \/ Dequeue(w)
    \/ SelectChannelStep(w)
    \/ FlushChannel(w)
    \/ CommitPost(w)
    \/ EmbedStep(w)
    \/ QueryStep(w)
    \/ MarkDuplicate(w)
    \/ IndexAdd(w)
    \/ Generate(w)
    \/ WriteOutput(w)
    \/ UpdatePost(w)

\* One run of the pipeline within one clock tick.
Next ==
    \/ \E p \in Payloads : Deliver(p)
    \/ \E i \in 1..Len(putters) : PutResume(i)
    \/ \E w \in Workers : WorkerStep(w)

Spec == Init /\ [][Next]_vars

\* A run in which no external call fails: the fault budget is spent.
InitNoFault ==
    /\ PipeStart
    /\ faults = MaxFaults
    /\ DedupIdle /\ RetryIdle /\ StartIdle /\ FilterIdle /\ RestIdle

SpecNoFault == InitNoFault /\ [][Next]_vars

\* The pipeline once the workers are started, every step that can be taken
\* taken in the end: the event loop runs each worker task that is ready and
\* wakes the suspended put calls, and an external call returns or fails.
\* The source delivers one event more than there are workers, so that an
\* event waits while every worker is busy: events of one channel with the
\* same text after truncation, the same event again among them.
LiveDeliveries == Cardinality(Workers) + 1
LivePayloads == {P1, P2}

DeliverLive(p) == delivered < LiveDeliveries /\ Deliver(p)

NextLive ==
    \/ \E p \in LivePayloads : DeliverLive(p)
    \/ \E i \in 1..Len(putters) : PutResume(i)
    \/ \E w \in Workers : WorkerStep(w)

SpecLive ==
    /\ Init
    /\ [][NextLive]_vars
    /\ \A w \in Workers : WF_vars(WorkerStep(w))
    /\ WF_vars(\E i \in 1..Len(putters) : PutResume(i))

\* The pipeline over several ticks.
NextClock == Next \/ Tick

SpecClock == Init /\ [][NextClock]_vars

\* The pipeline over several ticks, no external call failing.
SpecClockNoFault == InitNoFault /\ [][NextClock]_vars

\* ------------------------------------------- Deduplicator.check, alone
\* The distances (hundredths) and ids an index answer is drawn from; the
\* order of an answer is the index's own.
DistanceValues == {0, 14, 15, 16, 100}
AnswerIds == {<<"123", 7>>, <<"chan", 8>>}
Neighbours == AnswerIds \X DistanceValues

RECURSIVE SeqsUpTo(_, _)
SeqsUpTo(S, n) ==
    IF n = 0 THEN {<<>>}
    ELSE LET shorter == SeqsUpTo(S, n - 1)
         IN  shorter \cup {Append(q, x) : q \in shorter, x \in S}

AnswerOf(hits) ==
    [ids |-> << [i \in 1..Len(hits) |-> hits[i][1]] >>,
     distances |-> << [i \in 1..Len(hits) |-> hits[i][2]] >>]

DedupInit ==
    /\ PipeInit
    /\ RetryIdle
    /\ StartIdle
    /\ FilterIdle
    /\ RestIdle
    /\ dpc = "call"
    /\ dIn \in {AnswerOf(hits) : hits \in SeqsUpTo(Neighbours, MaxNeighbours)}
    /\ dOut = None

\* check(text) once the index has answered dIn.
DedupCheck ==
    /\ dpc = "call"
    /\ dpc' = "ret"
    /\ dOut' = Some(Check(Embed(P1.text), dIn, duplicate_threshold))
    /\ UNCHANGED <<dIn, pipeVars, restVars, retryVars, startVars, filterVars>>

DedupNext == DedupCheck

SpecDedup == DedupInit /\ [][DedupNext]_vars
\* ------------------------------------------- one LLMClient call, alone
\* tenacity's stop_after_attempt(3) and wait_exponential(multiplier=1,
\* min=1, max=8) on embed and on rewrite.
stop_after_attempt == 3
wait_multiplier == 1
wait_min == 1
wait_max == 8

\* The exception types of retry_if_exception_type.
RetryTypes == {"OpenAIError", "httpx.HTTPError"}

\* The class an exception is an instance of, among RetryTypes, or itself.
BaseOf(error) ==
    CASE error \in {"openai.APIConnectionError", "openai.APIStatusError"}
            -> "OpenAIError"
      [] error \in {"httpx.TransportError", "httpx.HTTPStatusError"}
            -> "httpx.HTTPError"
      [] OTHER -> error

\* What one execution of the method body ends in: "ok", or the exception
\* of the provider's client, of the HTTP post or raise_for_status, or of
\* reading the response.
AttemptOutcomes(fn, provider) ==
    IF provider = "openai"
    THEN {"ok", "openai.APIConnectionError", "openai.APIStatusError",
          "IndexError"}
    ELSE {"ok", "httpx.TransportError", "httpx.HTTPStatusError",
          IF fn = "embed" THEN "KeyError" ELSE "ValueError"}

\* retry=retry_if_exception_type((OpenAIError, httpx.HTTPError))
RetryIf(error) == BaseOf(error) \in RetryTypes

\* Variant: a stop condition that lets one more attempt through.
ShouldStop_OneMore(attempt) == attempt > stop_after_attempt

\* stop=stop_after_attempt(3)
ShouldStop(attempt) == attempt >= stop_after_attempt

RECURSIVE Pow2(_)
Pow2(n) == IF n <= 0 THEN 1 ELSE 2 * Pow2(n - 1)

Min2(a, b) == IF a < b THEN a ELSE b
Max2(a, b) == IF a > b THEN a ELSE b

\* wait_exponential: multiplier * 2^(attempt-1), kept within min..max.
Backoff(attempt) ==
    Max2(wait_min, Min2(wait_max, wait_multiplier * Pow2(attempt - 1)))

RetryInit ==
    /\ PipeInit
    /\ DedupIdle
    /\ StartIdle
    /\ FilterIdle
    /\ RestIdle
    /\ rpc = "attempt"
    /\ rFn \in {"embed", "rewrite"}
    /\ rProvider \in {"openai", "ollama"}
    /\ rAttempt = 1
    /\ rTrace = <<>>
    /\ rSleep = <<>>
    /\ rOut = None

\* One attempt: the body runs; tenacity returns its value, or stops and
\* re-raises its exception (reraise=True), or sleeps before the next one.
Attempt ==
    /\ rpc = "attempt"
    /\ \E o \in AttemptOutcomes(rFn, rProvider) :
        /\ rTrace' = Append(rTrace, o)
        /\ IF o = "ok"
           THEN /\ rpc' = "returned"
                /\ rOut' = Some([value |-> "ok", attempt |-> rAttempt])
                /\ UNCHANGED rSleep
           ELSE IF RetryIf(o) /\ ~ShouldStop(rAttempt)
           THEN /\ rpc' = "sleep"
                /\ rSleep' = Append(rSleep, Backoff(rAttempt))
                /\ UNCHANGED rOut
           ELSE /\ rpc' = "raised"
                /\ rOut' = Some([value |-> o, attempt |-> rAttempt])
                /\ UNCHANGED rSleep
    /\ UNCHANGED <<rFn, rProvider, rAttempt, pipeVars, restVars, dedupVars, startVars,
                   filterVars>>

\* The wait is over: the next attempt.
Wake ==
    /\ rpc = "sleep"
    /\ rpc' = "attempt"
    /\ rAttempt' = rAttempt + 1
    /\ UNCHANGED <<rFn, rProvider, rTrace, rSleep, rOut, pipeVars, restVars,
                   dedupVars,
                   startVars, filterVars>>

RetryNext == Attempt \/ Wake

SpecRetry == RetryInit /\ [][RetryNext]_vars

\* ------------------------------------- the filters before the pipeline
MaxTextLen == 2

\* The characters of a message text: a letter in both cases, another
\* letter, a blank.
Chars == {"a", "A", "b", " "}

\* str.lower(), character by character.
LowerChar(c) ==
    CASE c = "A" -> "a"
      [] c = "I" -> "i"
      [] c = "O" -> "o"
      [] OTHER -> c
Lower(text) == [i \in DOMAIN text |-> LowerChar(text[i])]

\* str.strip()
RECURSIVE Strip(_)
Strip(text) ==
    IF text = <<>> THEN <<>>
    ELSE IF Head(text) = " " THEN Strip(Tail(text))
    ELSE IF text[Len(text)] = " " THEN Strip(SubSeq(text, 1, Len(text) - 1))
    ELSE text

\* "word in text" of two strings.
Contains(word, text) ==
    \E i \in 0..(Len(text) - Len(word)) :
        SubSeq(text, i + 1, i + Len(word)) = word

\* _is_ad: the text is lowered, the stop words are taken as configured.
IsAd(text, stop_words) ==
    \E k \in DOMAIN stop_words : Contains(stop_words[k], Lower(text))

\* Both filters of _on_new_message and of _backfill_channel.
Dropped(text, stop_words) ==
    Strip(text) = <<>> \/ IsAd(text, stop_words)

\* The ad_stop_words a run may be configured with (_parse_stop_words
\* strips the words and keeps their case).
StopWordLists ==
    { <<>>, << <<"a">> >>, << <<"A">> >>, << <<"b">>, <<"a", "b">> >> }

Texts == SeqsUpTo(Chars, MaxTextLen)

FilterInit ==
    /\ PipeInit
    /\ DedupIdle
    /\ RetryIdle
    /\ StartIdle
    /\ RestIdle
    /\ fpc = "recv"
    /\ fMode \in {"listener", "backfill", "backfill_no_embeddings"}
    /\ fWords \in StopWordLists
    /\ fMsg \in {None} \cup {Some(t) : t \in Texts}
    /\ fOut = NoOutcome

\* text = message.message or ""
TextOf(msg) == IF IsNone(msg) THEN <<>> ELSE Val(msg)

\* Listener._on_new_message: return on an empty or filtered text, else
\* enqueue the payload.
ListenerOnNewMessage ==
    /\ fpc = "recv"
    /\ fMode = "listener"
    /\ fpc' = "done"
    /\ fOut' = IF Dropped(TextOf(fMsg), fWords) THEN NoOutcome
               ELSE [NoOutcome EXCEPT !.enqueued = TRUE]
    /\ UNCHANGED <<fMode, fWords, fMsg, pipeVars, restVars, dedupVars, retryVars,
                   startVars>>

\* One round of _backfill_channel's loop: continue on an empty or filtered
\* text, else _store_post and, with embeddings, embed and
\* vector_store.upsert, a method VectorStore does not have.
BackfillMessage ==
    /\ fpc = "recv"
    /\ fMode # "listener"
    /\ fpc' = "done"
    /\ fOut' = IF Dropped(TextOf(fMsg), fWords) THEN NoOutcome
               ELSE IF fMode = "backfill_no_embeddings"
               THEN [NoOutcome EXCEPT !.stored = TRUE]
               ELSE [NoOutcome EXCEPT !.stored = TRUE, !.embedded = TRUE,
                                      !.error = "AttributeError"]
    /\ UNCHANGED <<fMode, fWords, fMsg, pipeVars, restVars, dedupVars, retryVars,
                   startVars>>

FilterNext == ListenerOnNewMessage \/ BackfillMessage

SpecFilter == FilterInit /\ [][FilterNext]_vars

\* ---------------------------------------------- _backfill_channel, alone
\* Most messages iter_messages yields in one run.
MaxMessages == 2

\* The texts a fetched message may have: blank, an ad, short, longer than
\* max_chars, and longer than max_chars with the stop word behind the cut.
BackfillTexts ==
    { <<" ">>, <<"a", "b">>, <<"b">>, <<"b", "b", "b", "b">>,
      <<"b", "b", "b", "a">> }

\* message.message: a text, or None for a message without text.
MessageTexts == {None} \cup {Some(t) : t \in BackfillTexts}

\* settings.ad_stop_words of the run.
BackfillStopWords == << <<"a">> >>

\* The ids of the messages of a channel, latest first.
MessageId(i) == 6 + i

\* The message lists of at most n messages.
MessageLists(n) ==
    UNION {[1..k -> MessageTexts] : k \in 0..n}

\* The pipeline writes a text in character codes: a blank is 0.
CharCode(c) ==
    CASE c = " " -> 0
      [] c = "a" -> 1
      [] c = "b" -> 2
      [] OTHER -> 3
Codes(text) == [i \in DOMAIN text |-> CharCode(text[i])]

\* The entities get_entity may return for the channel: with its numeric id,
\* or without one.
Entities ==
    { [id |-> Some(123), username |-> "chan"],
      [id |-> None, username |-> "chan"] }

\* The tables as an earlier run left them: empty, or holding message 7 of
\* the channel, stored under its numeric id or under its name alone.
RowsBefore(telegram_id) ==
    [channels |-> {[id |-> 1, name |-> "chan", telegram_id |-> telegram_id,
                    created_at |-> 0]},
     posts |-> {[id |-> 1, channel_id |-> 1, telegram_msg_id |-> 7,
                 text |-> <<1, 1>>, created_at |-> 0]}]
TablesBefore ==
    { [channels |-> {}, posts |-> {}], RowsBefore(Some(123)),
      RowsBefore(None) }

BackfillStart(entities, lists, tables) ==
    /\ clock = 0
    /\ delivered = 0
    /\ putters = <<>>
    /\ accepted = 0
    /\ queue = <<>>
    /\ wpc = [w \in Workers |-> "idle"]
    /\ wloc = [w \in Workers |-> IdleLoc]
    /\ \E t \in tables : channels = t.channels /\ posts = t.posts
    /\ dbWriter = NoWorker
    /\ index = <<>>
    /\ output = <<>>
    /\ calls = [p \in Payloads |-> NoCalls]
    /\ done = <<>>
    /\ DedupIdle /\ RetryIdle /\ StartIdle /\ FilterIdle
    /\ ProfileIdle /\ ConfigIdle /\ PoolIdle /\ LeadIdle
    /\ bpc = "entity"
    /\ bEntity \in entities
    /\ bMsgs \in lists
    /\ bPos = 1
    /\ bEmbeddings \in {FALSE, TRUE}
    /\ bChannel = 0
    /\ bLog = <<>>
    /\ bError = None

BackfillInit ==
    /\ BackfillStart(Entities, MessageLists(MaxMessages), TablesBefore)
    /\ faults = 0

\* channel_id and channel_name of _backfill_channel (lines 70-72).
EntityChannelId == bEntity.id
EntityChannelName == bEntity.username

\* One call _backfill_channel made.
BackfillCall(op, message_id, text, doc_id) ==
    [op |-> op, message_id |-> message_id, text |-> text, doc_id |-> doc_id]

NoDocId == <<>>

\* Leave _backfill_channel with an exception.
BackfillRaise(error) ==
    /\ bpc' = "aborted"
    /\ bError' = Some(error)

\* get_entity, then _get_or_create_channel: the row selected by numeric id
\* (by name without one), else a new row; a flush that violates a unique
\* constraint raises.
BackfillGetOrCreateChannel ==
    /\ bpc = "entity"
    /\ LET hit == SelectChannel(channels, EntityChannelName, EntityChannelId)
       IN  IF ~IsNone(hit)
           THEN /\ bChannel' = Val(hit).id
                /\ bpc' = "next"
                /\ UNCHANGED <<channels, bError>>
           ELSE IF ChannelConflict(channels, EntityChannelName,
                                   EntityChannelId)
           THEN /\ BackfillRaise("IntegrityError")
                /\ UNCHANGED <<channels, bChannel>>
           ELSE /\ channels' = channels \cup
                       {[id |-> NextId(channels), name |-> EntityChannelName,
                         telegram_id |-> EntityChannelId,
                         created_at |-> clock]}
                /\ bChannel' = NextId(channels)
                /\ bpc' = "next"
                /\ UNCHANGED bError
    /\ UNCHANGED <<clock, delivered, putters, accepted, queue, wpc, wloc,
                   posts, dbWriter, index, output, calls, done, faults,
                   bEntity, bMsgs, bPos, bEmbeddings, bLog,
                   dedupVars, retryVars, startVars, filterVars, profileVars,
                   configVars, poolVars, leadVars>>

\* The loop's next message: the end of the run, a message the filters drop
\* (the whole text is looked at), or one to store.
BackfillFetch ==
    /\ bpc = "next"
    /\ IF bPos > Len(bMsgs)
       THEN bpc' = "done" /\ UNCHANGED bPos
       ELSE IF Dropped(TextOf(bMsgs[bPos]), BackfillStopWords)
       THEN bpc' = "next" /\ bPos' = bPos + 1
       ELSE bpc' = "store" /\ UNCHANGED bPos
    /\ UNCHANGED <<pipeVars, bEntity, bMsgs, bEmbeddings, bChannel, bLog,
                   bError, dedupVars, retryVars, startVars, filterVars,
                   profileVars, configVars, poolVars, leadVars>>

\* trimmed = text[:max_chars]
Trimmed == Truncate(Codes(TextOf(bMsgs[bPos])))

\* _store_post of the trimmed text: a row the table already has is left as
\* it is (IntegrityError, rollback).  Without store_embeddings the loop
\* goes on.
BackfillStorePost ==
    /\ bpc = "store"
    /\ posts' =
          IF PostConflict(posts, bChannel, MessageId(bPos)) THEN posts
          ELSE posts \cup
                 {[id |-> NextId(posts), channel_id |-> bChannel,
                   telegram_msg_id |-> MessageId(bPos), text |-> Trimmed,
                   created_at |-> clock]}
    /\ bLog' = Append(bLog, BackfillCall("store_post", MessageId(bPos),
                                         Trimmed, NoDocId))
    /\ IF bEmbeddings
       THEN bpc' = "embed" /\ UNCHANGED bPos
       ELSE bpc' = "next" /\ bPos' = bPos + 1
    /\ UNCHANGED <<clock, delivered, putters, accepted, queue, wpc, wloc,
                   channels, dbWriter, index, output, calls, done, faults,
                   bEntity, bMsgs, bEmbeddings, bChannel, bError,
                   dedupVars, retryVars, startVars, filterVars, profileVars,
                   configVars, poolVars, leadVars>>

\* embedding = await llm_client.embed(trimmed); a backend failure leaves
\* the function.
BackfillEmbed ==
    /\ bpc = "embed"
    /\ \/ /\ bLog' = Append(bLog, BackfillCall("embed", MessageId(bPos),
                                                Trimmed, NoDocId))
          /\ bpc' = "upsert"
          /\ UNCHANGED <<faults, bError>>
       \/ /\ MayFail
          /\ faults' = faults + 1
          /\ BackfillRaise("BackendError")
          /\ UNCHANGED bLog
    /\ UNCHANGED <<clock, delivered, putters, accepted, queue, wpc, wloc,
                   channels, posts, dbWriter, index, output, calls, done,
                   bEntity, bMsgs, bPos, bEmbeddings, bChannel,
                   dedupVars, retryVars, startVars, filterVars, profileVars,
                   configVars, poolVars, leadVars>>

\* await vector_store.upsert(doc_id, embedding, trimmed, metadata): the
\* call is made on an object that has the method; reading an attribute the
\* object does not have raises.
BackfillUpsert ==
    /\ bpc = "upsert"
    /\ IF "upsert" \in VectorStoreMethods
       THEN /\ bLog' = Append(bLog,
                   BackfillCall("upsert", MessageId(bPos), Trimmed,
                                DocId(EntityChannelName, EntityChannelId,
                                      MessageId(bPos))))
            /\ bpc' = "next"
            /\ bPos' = bPos + 1
            /\ UNCHANGED bError
       ELSE /\ BackfillRaise("AttributeError")
            /\ UNCHANGED <<bLog, bPos>>
    /\ UNCHANGED <<pipeVars, bEntity, bMsgs, bEmbeddings, bChannel,
                   dedupVars, retryVars, startVars, filterVars, profileVars,
                   configVars, poolVars, leadVars>>

BackfillNext ==
    \/ BackfillGetOrCreateChannel
    \/ BackfillFetch
    \/ BackfillStorePost
    \/ BackfillEmbed
    \/ BackfillUpsert

SpecBackfill == BackfillInit /\ [][BackfillNext]_vars

\* ------------------------------------- backfill, then the live service
\* The history of a new channel is backfilled, with or without embeddings,
\* and the live service is started when the backfill has ended; no external
\* call fails.  The channel's latest message is longer than max_chars.
HistoryFirstInit ==
    /\ BackfillStart({[id |-> Some(123), username |-> "chan"]},
                     {<<Some(<<"b", "b", "b", "b">>), Some(<<"b">>)>>},
                     {[channels |-> {}, posts |-> {}]})
    /\ faults = MaxFaults

BackfillEnded == bpc \in {"done", "aborted"}

HistoryFirstNext ==
    \/ BackfillNext
    \/ BackfillEnded /\ NextLive

SpecHistoryFirst == HistoryFirstInit /\ [][HistoryFirstNext]_vars

\* ------------------------------------------------ Processor.start, alone
\* Most calls of start on one processor, and the largest processor_workers.
MaxStarts == 3
MaxPool == 3

\* The tasks one call of start creates, each named by the call.
NewTasks(processor_workers, call) == [i \in 1..processor_workers |-> call]

\* Variant: a start without the check of self._workers.
StartWorkers_Unguarded(workers, processor_workers, call) ==
    workers \o NewTasks(processor_workers, call)

\* Processor.start: "if self._workers: return", else one task for each of
\* range(processor_workers); what self._workers is after the call.
StartWorkers(workers, processor_workers, call) ==
    IF workers # <<>> THEN workers
    ELSE workers \o NewTasks(processor_workers, call)

\* A processor as constructed: no task, an empty queue.
PoolInit ==
    /\ PipeInit
    /\ DedupIdle /\ RetryIdle /\ StartIdle /\ FilterIdle
    /\ ProfileIdle /\ ConfigIdle /\ BackfillIdle /\ LeadIdle
    /\ kSetting \in 0..MaxPool
    /\ kWorkers = <<>>
    /\ kStarts = 0

\* await processor.start(); the function has no await, so a call is one
\* step.
PoolStart ==
    /\ kStarts < MaxStarts
    /\ kStarts' = kStarts + 1
    /\ kWorkers' = StartWorkers(kWorkers, kSetting, kStarts + 1)
    /\ UNCHANGED <<kSetting, pipeVars, dedupVars, retryVars, startVars,
                   filterVars, profileVars, configVars, backfillVars,
                   leadVars>>

\* Calls of start and of enqueue on one processor, in any order.
PoolNext ==
    \/ PoolStart
    \/ \E p \in Payloads : Deliver(p)

SpecPool == PoolInit /\ [][PoolNext]_vars

\* ---------------------------------------------------- _lead_label, alone
\* The longest first word of a sample, in characters.
MaxLeadWord == 17

\* The largest colon_idx that gives a label, and the most words of one.
lead_label_max_colon == 15
lead_label_max_words == 3

\* A sample is a sequence of "w" (a letter), ":", " " and "\n".
Whitespace == {" ", "\n"}

\* str.strip() of a sample
RECURSIVE StripWs(_)
StripWs(text) ==
    IF text = <<>> THEN <<>>
    ELSE IF Head(text) \in Whitespace THEN StripWs(Tail(text))
    ELSE IF text[Len(text)] \in Whitespace
         THEN StripWs(SubSeq(text, 1, Len(text) - 1))
    ELSE text

\* str.find(c): the index, from 0, of the first c, or -1.
Find(text, c) ==
    LET at == {i \in 1..Len(text) : text[i] = c}
    IN  IF at = {} THEN -1
        ELSE (CHOOSE i \in at : \A j \in at : i <= j) - 1

\* splitlines()[0] of a text that is not empty.
FirstLine(text) ==
    LET nl == Find(text, "\n")
    IN  IF nl = -1 THEN text ELSE SubSeq(text, 1, nl)

\* len(label.split()): the runs of characters that are not whitespace.
SplitCount(label) ==
    Cardinality({i \in 1..Len(label) :
                    /\ label[i] \notin Whitespace
                    /\ (i = 1 \/ label[i - 1] \in Whitespace)})

\* _lead_label
LeadLabel(text) ==
    LET first_line == StripWs(FirstLine(StripWs(text)))
        colon_idx == Find(first_line, ":")
        label == StripWs(SubSeq(first_line, 1, colon_idx))
    IN  IF 0 < colon_idx /\ colon_idx <= lead_label_max_colon
        THEN IF label # <<>> /\ SplitCount(label) <= lead_label_max_words
             THEN Some(label)
             ELSE None
        ELSE None

\* n times the character c.
Run(c, n) == [i \in 1..n |-> c]

\* m further words of one letter.
RECURSIVE MoreWords(_)
MoreWords(m) == IF m = 0 THEN <<>> ELSE <<" ", "w">> \o MoreWords(m - 1)

\* What follows the lead of a sample: nothing, a sentence, a second colon,
\* a second line with a colon.
Tails == { <<>>, <<" ", "w">>, <<":", "w">>, <<"\n", "w", ":">> }

\* The samples: a first word of up to MaxLeadWord letters, up to
\* lead_label_max_words + 1 words more, a colon or none, after a blank or
\* not, and a tail; the samples build_style_profile keeps are not blank.
LeadTexts ==
    { t \in { Run(" ", s) \o Run("w", k) \o MoreWords(m) \o Run(" ", b)
                \o Run(":", c) \o tail :
                s \in 0..1, k \in 0..MaxLeadWord,
                m \in 0..(lead_label_max_words + 1), b \in 0..1, c \in 0..1,
                tail \in Tails } :
        StripWs(t) # <<>> }

LeadInit ==
    /\ PipeInit
    /\ DedupIdle /\ RetryIdle /\ StartIdle /\ FilterIdle
    /\ ProfileIdle /\ ConfigIdle /\ BackfillIdle /\ PoolIdle
    /\ lpc = "call"
    /\ lText \in LeadTexts
    /\ lOut = None

\* label = _lead_label(text)
LeadLabelCall ==
    /\ lpc = "call"
    /\ lpc' = "returned"
    /\ lOut' = LeadLabel(lText)
    /\ UNCHANGED <<lText, pipeVars, dedupVars, retryVars, startVars,
                   filterVars, profileVars, configVars, backfillVars,
                   poolVars>>

LeadNext == LeadLabelCall

SpecLead == LeadInit /\ [][LeadNext]_vars

\* ------------------------------------------- build_style_profiles, alone
\* Most posts one channel has when the profiles are built.
MaxPosts == 12
\* Most posts of a channel, its latest, with a text unlike its other posts'.
MaxNewer == 2

\* The 10 of "min_samples = max(10, limit // 3)", and its divisor.
min_samples_floor == 10
limit_divisor == 3
\* The cutoffs of the tempo buckets, in words.
tempo_short_max == 10
tempo_medium_max == 17

\* A text of the profiler is a sequence of "w" (a letter or digit), "."
\* (a sentence end) and " " (whitespace).

\* re.sub(r"\s+", " ", ...): runs of whitespace become one blank.
RECURSIVE CollapseSpaces(_)
CollapseSpaces(text) ==
    IF Len(text) < 2 THEN text
    ELSE IF text[1] = " " /\ text[2] = " " THEN CollapseSpaces(Tail(text))
    ELSE <<Head(text)>> \o CollapseSpaces(Tail(text))

\* re.split(r"(?<=[.!?...])\s+", cleaned): cut at whitespace that follows a
\* sentence end; part is the piece being read.
RECURSIVE SplitAfterStop(_, _)
SplitAfterStop(text, part) ==
    IF text = <<>> THEN <<part>>
    ELSE IF Head(text) = " " /\ part # <<>> /\ part[Len(part)] = "."
         THEN <<part>> \o SplitAfterStop(Tail(text), <<>>)
    ELSE SplitAfterStop(Tail(text), Append(part, Head(text)))

\* _split_sentences
SplitSentences(text) ==
    LET cleaned == CollapseSpaces(Strip(text))
    IN  IF cleaned = <<>> THEN <<>>
        ELSE SelectSeq(SplitAfterStop(cleaned, <<>>), LAMBDA q : q # <<>>)

\* re.findall of the word pattern: the maximal runs of letters.
RECURSIVE WordsFrom(_, _)
WordsFrom(text, word) ==
    LET ended == IF word = <<>> THEN <<>> ELSE <<word>>
    IN  IF text = <<>> THEN ended
        ELSE IF Head(text) = "w"
             THEN WordsFrom(Tail(text), Append(word, "w"))
        ELSE ended \o WordsFrom(Tail(text), <<>>)

\* _words
Words(text) == WordsFrom(text, <<>>)

\* The word counts of the sentences of one text that have words.
RECURSIVE WordLengths(_)
WordLengths(sentences) ==
    IF sentences = <<>> THEN <<>>
    ELSE LET n == Len(Words(Head(sentences)))
         IN  (IF n > 0 THEN <<n>> ELSE <<>>) \o WordLengths(Tail(sentences))

\* sentence_word_lengths of build_style_profile, over all texts.
RECURSIVE SentenceWordLengths(_)
SentenceWordLengths(texts) ==
    IF texts = <<>> THEN <<>>
    ELSE WordLengths(SplitSentences(Head(texts)))
         \o SentenceWordLengths(Tail(texts))

\* Variant: cutoffs that exclude their own value.
Tempo_StrictCutoffs(lengths) ==
    LET total == SumSeq(lengths)
        n == Len(lengths)
    IN  IF n = 0 THEN "short"
        ELSE IF total < tempo_short_max * n THEN "short"
        ELSE IF total < tempo_medium_max * n THEN "medium"
        ELSE "long"

\* The tempo bucket of mean(sentence_word_lengths), 0.0 when there is no
\* sentence; "mean <= k" is "total <= k * n".
Tempo(lengths) ==
    LET total == SumSeq(lengths)
        n == Len(lengths)
    IN  IF n = 0 THEN "short"
        ELSE IF total <= tempo_short_max * n THEN "short"
        ELSE IF total <= tempo_medium_max * n THEN "medium"
        ELSE "long"

\* build_style_profile, its keys sample_size and tempo; {} is <<>>.
BuildStyleProfile(texts) ==
    LET kept == SelectSeq(texts, LAMBDA t : Strip(t) # <<>>)
    IN  IF kept = <<>> THEN <<>>
        ELSE [sample_size |-> Len(kept),
              tempo |-> Tempo(SentenceWordLengths(kept))]

\* format_style_profile, its lines "Sample size" and "Tempo"; "" is <<>>.
FormatStyleProfile(profile) ==
    IF profile = <<>> THEN <<>>
    ELSE << <<"Sample size", profile.sample_size, "posts">>,
            <<"Tempo", profile.tempo, "sentences">> >>

\* Variant: a minimum that is the third of the limit alone.
MinSamples_NoFloor(limit) == limit \div limit_divisor

\* min_samples = max(10, limit // 3)
MinSamples(limit) == Max2(min_samples_floor, limit \div limit_divisor)

\* order_by(Post.created_at.desc()): the latest row first, rows of one
\* created_at in the order of their ids.
RECURSIVE OrderByCreatedDesc(_)
OrderByCreatedDesc(rows) ==
    IF rows = {} THEN <<>>
    ELSE LET first == CHOOSE r \in rows : \A q \in rows :
                          \/ q.created_at < r.created_at
                          \/ q.created_at = r.created_at /\ q.id >= r.id
         IN  <<first>> \o OrderByCreatedDesc(rows \ {first})

\* select(Post.text).where(Post.channel_id == channel.id)
\*     .order_by(Post.created_at.desc()).limit(limit)
PostsQuery(ps, channel_db_id, limit) ==
    LET rows == OrderByCreatedDesc({r \in ps : r.channel_id = channel_db_id})
    IN  SubSeq(rows, 1, Min2(limit, Len(rows)))

TextsOf(rows) == [i \in DOMAIN rows |-> rows[i].text]

\* What build_style_profiles formats for one channel, <<>> for a channel
\* it passes over.
FormattedFor(ps, channel, limit) ==
    LET texts == TextsOf(PostsQuery(ps, channel.id, limit))
    IN  IF Len(texts) < MinSamples(limit) THEN <<>>
        ELSE FormatStyleProfile(BuildStyleProfile(texts))

\* build_style_profiles over all channels: the two dicts of the cache.
StyleProfilesOf(chs, ps, limit) ==
    LET with == {c \in chs : FormattedFor(ps, c, limit) # <<>>}
        ids == {Val(c.telegram_id) : c \in {e \in with : ~IsNone(e.telegram_id)}}
        names == {c.name : c \in with}
    IN  [by_channel_id |->
            [t \in ids |-> FormattedFor(ps,
                CHOOSE c \in with : c.telegram_id = Some(t), limit)],
         by_channel_name |->
            [n \in names |-> FormattedFor(ps,
                CHOOSE c \in with : c.name = n, limit)]]

\* Variant: the display name looked up before the numeric id.
CacheGet_NameFirst(cache, channel_id, channel_name) ==
    IF channel_name # "" /\ channel_name \in DOMAIN cache.by_channel_name
    THEN Some(cache.by_channel_name[channel_name])
    ELSE IF ~IsNone(channel_id) /\ Val(channel_id) \in DOMAIN cache.by_channel_id
    THEN Some(cache.by_channel_id[Val(channel_id)])
    ELSE None

\* StyleProfileCache.get; a channel_name of None or "" is "".
CacheGet(cache, channel_id, channel_name) ==
    IF ~IsNone(channel_id) /\ Val(channel_id) \in DOMAIN cache.by_channel_id
    THEN Some(cache.by_channel_id[Val(channel_id)])
    ELSE IF channel_name # "" /\ channel_name \in DOMAIN cache.by_channel_name
    THEN Some(cache.by_channel_name[channel_name])
    ELSE None

\* A sentence of n words, "w w ... w."
RECURSIVE SentenceOf(_)
SentenceOf(n) ==
    IF n = 0 THEN <<".">>
    ELSE IF n = 1 THEN <<"w", ".">>
    ELSE <<"w", " ">> \o SentenceOf(n - 1)

\* The texts the stored posts are drawn from: whitespace only (a text cut
\* at max_chars inside its leading whitespace), no word at all, and one
\* sentence of 10, 11, 17 or 18 words.
ProfileTexts ==
    {<<" ">>, SentenceOf(0), SentenceOf(10), SentenceOf(11), SentenceOf(17),
     SentenceOf(18)}

\* settings.style_profile_posts of the run.
Limits == {9, 10, 33}

\* n posts of channel channel_db_id with text t, ids and times from..
RunOfPosts(channel_db_id, t, from, n) ==
    {[id |-> from + k, channel_id |-> channel_db_id,
      telegram_msg_id |-> from + k, text |-> t, created_at |-> from + k]
        : k \in 0..(n - 1)}

\* The channel of the payloads and a channel "other".
ChanRow(telegram_id) ==
    [id |-> 1, name |-> "chan", telegram_id |-> telegram_id]
OtherRow == [id |-> 2, name |-> "other", telegram_id |-> Some(999)]

ProfileInit ==
    /\ PipeInit
    /\ DedupIdle
    /\ RetryIdle
    /\ StartIdle
    /\ FilterIdle
    /\ ConfigIdle /\ MoreIdle
    /\ ppc = "build"
    /\ pLimit \in Limits
    /\ pChannels \in {{ChanRow(t), OtherRow} : t \in {None, Some(123)}}
    /\ \E older, newer \in ProfileTexts, n \in 0..MaxPosts :
       \E m \in 0..Min2(MaxNewer, MaxPosts - n), others \in {0, MaxPosts} :
          pPosts = RunOfPosts(1, older, 1, n)
                   \cup RunOfPosts(1, newer, n + 1, m)
                   \cup RunOfPosts(2, SentenceOf(18), MaxPosts + 1, others)
    /\ pCache = NoCache
    /\ pKey = <<>>
    /\ pGot = None

\* main()'s "style_profiles = await build_style_profiles(limit=...)".
BuildProfiles ==
    /\ ppc = "build"
    /\ ppc' = "built"
    /\ pCache' = StyleProfilesOf(pChannels, pPosts, pLimit)
    /\ UNCHANGED <<pLimit, pChannels, pPosts, pKey, pGot, configVars, moreVars,
                   pipeVars, dedupVars, retryVars, startVars, filterVars>>

\* handle_message's "self._style_profiles.get(channel_id, channel_name)".
ProfileGet(channel_id, channel_name) ==
    /\ ppc = "built"
    /\ ppc' = "got"
    /\ pKey' = <<channel_id, channel_name>>
    /\ pGot' = CacheGet(pCache, channel_id, channel_name)
    /\ UNCHANGED <<pLimit, pChannels, pPosts, pCache, configVars, moreVars,
                   pipeVars, dedupVars, retryVars, startVars, filterVars>>

ProfileNext ==
    \/ BuildProfiles
    \/ \E channel_id \in {None, Some(123), Some(999)},
          channel_name \in {"chan", "other", ""} :
            ProfileGet(channel_id, channel_name)

SpecProfile == ProfileInit /\ [][ProfileNext]_vars

\* ------------------------------------------------------ main(), alone
\* Variant: a health_check that logs the failure and returns.
HealthCheck_LogsOnly(provider, backend) == "ok"

\* LLMClient.health_check: nothing is checked unless the provider is
\* ollama; a failing GET /api/tags is logged and raised again.
HealthCheck(provider, backend) ==
    IF provider # "ollama" THEN "ok"
    ELSE IF backend = "up" THEN "ok"
    ELSE "httpx.HTTPError"

\* database.init_db: RuntimeError without an engine, else create_all.
InitDb(engine, database) ==
    IF ~engine THEN "RuntimeError"
    ELSE IF database = "ok" THEN "ok"
    ELSE "OperationalError"

\* Variant: a handle_message that rebuilds the profiles from the store.
CacheAfterHandle_Rebuilt(cache, chs, ps, limit) ==
    StyleProfilesOf(chs, ps, limit)

\* self._style_profiles once handle_message has run: the object main()
\* passed to Processor, which handle_message reads with get and nothing
\* assigns to.
CacheAfterHandle(cache, chs, ps, limit) == cache

StartInit ==
    /\ PipeInit
    /\ DedupIdle
    /\ RetryIdle
    /\ FilterIdle
    /\ ConfigIdle /\ MoreIdle
    /\ ppc = "off"
    /\ pLimit = min_samples_floor
    /\ pChannels = {ChanRow(Some(123)), OtherRow}
    /\ pPosts \in {{}, RunOfPosts(1, SentenceOf(tempo_short_max), 1,
                                  min_samples_floor)}
    /\ pCache = NoCache
    /\ pKey = <<>>
    /\ pGot = None
    /\ spc = "init_engine"
    /\ sEnv \in [provider : {"openai", "ollama"}, engine : {"ok", "raises"},
                  database : {"ok", "down"}, backend : {"up", "down"},
                  telegram : {"up", "down"}]
    /\ sEngine = FALSE
    /\ sWorkers = 0
    /\ sListening = FALSE
    /\ sError = None
    /\ sEnq = 0
    /\ sHandled = 0

\* main() goes on to its next call, or ends by the exception of this one.
StartStep(at, outcome, next) ==
    /\ spc = at
    /\ IF outcome = "ok"
       THEN spc' = next /\ UNCHANGED sError
       ELSE spc' = "aborted" /\ sError' = Some([at |-> at, error |-> outcome])
    /\ UNCHANGED <<sEnv, sEnq, sHandled, ppc, pLimit, pChannels, pPosts, pKey,
                   pGot, configVars, moreVars, pipeVars, dedupVars, retryVars,
                   filterVars>>

\* init_engine(settings): create_async_engine sets _engine, or raises.
InitEngine ==
    /\ StartStep("init_engine",
                 IF sEnv.engine = "ok" THEN "ok" ELSE "ArgumentError",
                 "init_db")
    /\ sEngine' = (sEnv.engine = "ok")
    /\ UNCHANGED <<sWorkers, sListening, pCache>>

\* await init_db()
InitDbStep ==
    /\ StartStep("init_db", InitDb(sEngine, sEnv.database), "health_check")
    /\ UNCHANGED <<sEngine, sWorkers, sListening, pCache>>

\* llm_client = LLMClient(settings); await llm_client.health_check()
HealthCheckStep ==
    /\ StartStep("health_check", HealthCheck(sEnv.provider, sEnv.backend),
                 "build_style_profiles")
    /\ UNCHANGED <<sEngine, sWorkers, sListening, pCache>>

\* VectorStore, Deduplicator, Brain; await build_style_profiles(...)
BuildStyleProfiles ==
    /\ StartStep("build_style_profiles", "ok", "processor_start")
    /\ pCache' = StyleProfilesOf(pChannels, pPosts, pLimit)
    /\ UNCHANGED <<sEngine, sWorkers, sListening>>

\* Processor(...); await processor.start(): the worker tasks are created
\* unless there are some already.
ProcessorStart ==
    /\ StartStep("processor_start", "ok", "listener_start")
    /\ sWorkers' = IF sWorkers # 0 THEN sWorkers ELSE Cardinality(Workers)
    /\ UNCHANGED <<sEngine, sListening, pCache>>

\* await listener.start(): the handler is registered and the client
\* connects and runs, or client.start() raises.
ListenerStart ==
    /\ StartStep("listener_start",
                 IF sEnv.telegram = "up" THEN "ok" ELSE "ConnectionError",
                 "running")
    /\ sListening' = (sEnv.telegram = "up")
    /\ UNCHANGED <<sEngine, sWorkers, pCache>>

\* Listener._on_new_message enqueues an event.
StartEnqueue ==
    /\ sListening
    /\ sEnq < MaxDeliveries
    /\ sEnq' = sEnq + 1
    /\ UNCHANGED <<spc, sEnv, sEngine, sWorkers, sListening, sError, sHandled,
                   pipeVars, restVars, dedupVars, retryVars, filterVars>>

\* A worker task takes an event of channel "chan" from the queue and runs
\* handle_message: the raw post is stored, the style profile looked up.
StartHandle ==
    /\ sWorkers > 0
    /\ sHandled < sEnq
    /\ sHandled' = sHandled + 1
    /\ pPosts' = pPosts \cup RunOfPosts(1, SentenceOf(tempo_medium_max + 1),
                                       NextId(pPosts), 1)
    /\ pKey' = <<Some(123), "chan">>
    /\ pGot' = CacheGet(pCache, Some(123), "chan")
    /\ pCache' = CacheAfterHandle(pCache, pChannels, pPosts', pLimit)
    /\ UNCHANGED <<spc, sEnv, sEngine, sWorkers, sListening, sError, sEnq,
                   ppc, pLimit, pChannels, configVars, moreVars,
                   pipeVars, dedupVars, retryVars, filterVars>>

StartNext ==
    \/ InitEngine
    \/ InitDbStep
    \/ HealthCheckStep
    \/ BuildStyleProfiles
    \/ ProcessorStart
    \/ ListenerStart
    \/ StartEnqueue
    \/ StartHandle

SpecStart == StartInit /\ [][StartNext]_vars

\* ------------------------------------------------------ Settings, alone
\* Strings of the settings, as sequences of characters.
OpenaiName == <<"o", "p", "e", "n", "a", "i">>
OllamaName == <<"o", "l", "l", "a", "m", "a">>
\* Some non-empty value of a key, URL or model name.
SomeValue == <<"x">>

\* The defaults of the fields Settings is given no value for.
SettingsDefaults ==
    [llm_provider |-> OllamaName, openai_api_key |-> None,
     ollama_base_url |-> Some(SomeValue), ollama_model |-> Some(SomeValue),
     ollama_embedding_model |-> Some(SomeValue)]

\* The fields of the Settings object before validation: the value given,
\* else the default.  openai_api_key is "str | None", the others are str.
WithDefaults(given) ==
    [llm_provider |-> IF IsNone(given.llm_provider)
                      THEN SettingsDefaults.llm_provider
                      ELSE Val(given.llm_provider),
     openai_api_key |-> given.openai_api_key,
     ollama_base_url |-> IF IsNone(given.ollama_base_url)
                         THEN Val(SettingsDefaults.ollama_base_url)
                         ELSE Val(given.ollama_base_url),
     ollama_model |-> IF IsNone(given.ollama_model)
                      THEN Val(SettingsDefaults.ollama_model)
                      ELSE Val(given.ollama_model),
     ollama_embedding_model |-> IF IsNone(given.ollama_embedding_model)
                                THEN Val(SettingsDefaults.ollama_embedding_model)
                                ELSE Val(given.ollama_embedding_model)]

\* Variant: a validator that compares llm_provider as it is given.
NormalizedProvider_AsGiven(llm_provider) == llm_provider

\* provider = self.llm_provider.lower().strip()
NormalizedProvider(llm_provider) == Strip(Lower(llm_provider))

\* Settings._validate_provider: "ok" for "return self", else the error.
ValidateProvider(settings) ==
    LET provider == NormalizedProvider(settings.llm_provider)
    IN  IF provider \notin {OpenaiName, OllamaName} THEN "ValueError"
        ELSE IF provider = OpenaiName
                /\ (IsNone(settings.openai_api_key)
                    \/ Val(settings.openai_api_key) = <<>>)
             THEN "ValueError"
        ELSE IF provider = OllamaName
                /\ (\/ settings.ollama_base_url = <<>>
                    \/ settings.ollama_model = <<>>
                    \/ settings.ollama_embedding_model = <<>>)
             THEN "ValueError"
        ELSE "ok"

\* The values llm_provider is given: the two names, in other case, with
\* blanks around, another name, the empty string.
ProviderValues ==
    {OpenaiName, OllamaName,
     <<"O", "p", "e", "n", "A", "I">>,
     <<" ">> \o OllamaName \o <<" ">>,
     <<"a", "z", "u", "r", "e">>,
     <<>>}

GivenString == {None, Some(<<>>), Some(SomeValue)}

ConfigInit ==
    /\ PipeInit
    /\ DedupIdle
    /\ RetryIdle
    /\ StartIdle
    /\ FilterIdle
    /\ ProfileIdle /\ MoreIdle
    /\ cpc = "construct"
    /\ cEnv \in [llm_provider : {None} \cup {Some(v) : v \in ProviderValues},
                  openai_api_key : GivenString,
                  ollama_base_url : GivenString,
                  ollama_model : GivenString,
                  ollama_embedding_model : GivenString]
    /\ cOut = None

\* Settings(**kwargs): the fields are filled in, then the "after"
\* validator runs; its ValueError reaches the caller as pydantic's
\* ValidationError, a ValueError.
Construct ==
    /\ cpc = "construct"
    /\ LET settings == WithDefaults(cEnv)
       IN  IF ValidateProvider(settings) = "ok"
           THEN cpc' = "constructed" /\ cOut' = Some(settings)
           ELSE cpc' = "rejected" /\ cOut' = None
    /\ UNCHANGED <<cEnv, profileVars, moreVars, pipeVars, dedupVars, retryVars,
                   startVars, filterVars>>

ConfigNext == Construct

SpecConfig == ConfigInit /\ [][ConfigNext]_vars

\* =============================================================== claims
InFlight == {w \in Workers : wpc[w] # "idle" /\ ~IsNone(wloc[w].payload)}

\* Two payloads are deliveries of one logical event.
SameEvent(p, q) ==
    p.channel_name = q.channel_name /\ p.message_id = q.message_id

OutputsFor(p) ==
    Cardinality({i \in DOMAIN output :
                    /\ Head(output[i].parts) = "header"
                    /\ output[i].channel_name = p.channel_name
                    /\ output[i].message_id = p.message_id})

\* The stored records of p's (source, messageId).
RecordsOf(p) ==
    {r \in posts : /\ r.telegram_msg_id = p.message_id
                   /\ \E c \in channels : /\ c.id = r.channel_id
                                          /\ c.name = p.channel_name}

RECURSIVE SumOver(_, _)
SumOver(S, what) ==
    IF S = {} THEN 0
    ELSE LET q == CHOOSE x \in S : TRUE
         IN  calls[q][what] + SumOver(S \ {q}, what)

EventCalls(p, what) == SumOver({q \in Payloads : SameEvent(p, q)}, what)

\* Call j of done began after call i had ended.
After(i, j) == i < j /\ done[j].started >= i
\* Calls i < j of done ran at the same time.
Overlap(i, j) == i < j /\ done[j].started < i

ExternalErrors == {"BackendError", "OSError", "DatabaseError"}

\* C1: handle_message run twice in sequence with the same input and no
\* failing external call leaves one stored record, one dedup check, one
\* rewrite call and one output record, and the second run stops after
\* _store_raw_post because processed_at is set.
C1_TwiceIsOnce ==
    \A i, j \in DOMAIN done :
        ( /\ After(i, j)
          /\ done[i].payload = done[j].payload
          /\ done[i].result = "processed"
          /\ faults = 0 )
        => LET p == done[i].payload
           IN  /\ done[j].result = "skipped"
               /\ Cardinality(RecordsOf(p)) = 1
               /\ calls[p].check = 1
               /\ calls[p].generate = 1
               /\ OutputsFor(p) = 1

\* C2: whatever the interleaving of the workers, the index add, the
\* rewrite call and the output append each happen at most once per
\* (source, messageId).
C2_SideEffectsAtMostOnce ==
    \A p \in Payloads :
        /\ EventCalls(p, "add") <= 1
        /\ EventCalls(p, "generate") <= 1
        /\ OutputsFor(p) <= 1

\* Two calls for one payload ran at the same time, and one of them went
\* through to the end.
C2_Witness ==
    \E i, j \in DOMAIN done :
        /\ Overlap(i, j)
        /\ done[i].payload = done[j].payload
        /\ "processed" \in {done[i].result, done[j].result}
        /\ OutputsFor(done[i].payload) = 1

\* C3: of two _store_raw_post calls racing on one (source, messageId),
\* one inserts and returns created = True, the other returns the existing
\* record with created = False, and the store holds one record.
C3_StoreOrFetchRace ==
    ( /\ Len(done) = 2
      /\ faults = 0
      /\ Overlap(1, 2)
      /\ done[1].payload = done[2].payload )
    => /\ {done[1].created, done[2].created} = {Some(TRUE), Some(FALSE)}
       /\ Cardinality(RecordsOf(done[1].payload)) = 1

\* C4: a call that ends on the duplicate branch has marked the record
\* is_duplicate = True, with similarity, duplicate_of and processed_at set,
\* and made no index add, no rewrite call and no output record.
C4_DuplicateMarked ==
    \A i \in DOMAIN done :
        done[i].result = "duplicate"
        => LET p == done[i].payload
           IN  /\ calls[p].add = 0
               /\ calls[p].generate = 0
               /\ OutputsFor(p) = 0
               /\ \E r \in RecordsOf(p) :
                     /\ HasAttr(r, "is_duplicate")
                     /\ r.is_duplicate = TRUE
                     /\ HasAttr(r, "similarity")
                     /\ ~IsNone(r.similarity)
                     /\ HasAttr(r, "duplicate_of")
                     /\ ~IsNone(r.duplicate_of)
                     /\ HasAttr(r, "processed_at")
                     /\ ~IsNone(r.processed_at)

\* C5: a call that ends on the unique branch with no failing external call
\* has made one index add, one rewrite call and one output record, and the
\* record has is_duplicate = False, processed_at set and rewritten_text
\* equal to the rewrite's answer.
C5_UniquePassThrough ==
    \A i \in DOMAIN done :
        (done[i].result = "processed" /\ faults = 0)
        => LET p == done[i].payload
           IN  /\ calls[p].add = 1
               /\ calls[p].generate = 1
               /\ OutputsFor(p) = 1
               /\ \E r \in RecordsOf(p) :
                     /\ HasAttr(r, "is_duplicate")
                     /\ r.is_duplicate = FALSE
                     /\ HasAttr(r, "processed_at")
                     /\ ~IsNone(r.processed_at)
                     /\ HasAttr(r, "rewritten_text")
                     /\ r.rewritten_text = Some(Rewrite(r.text, None))

\* C6: after a call that stored the record and then failed in an external
\* call, the next delivery of the same (source, messageId) fetches the
\* record with created = False and runs the dedup check again.
C6_RetryAfterFailure ==
    \A i, j \in DOMAIN done :
        ( /\ After(i, j)
          /\ done[i].payload = done[j].payload
          /\ done[i].created = Some(TRUE)
          /\ done[i].result = "failed"
          /\ done[i].error \in ExternalErrors
          /\ \A k \in DOMAIN done :
                (k # i /\ k < j) => done[k].payload # done[i].payload )
        => /\ done[j].created = Some(FALSE)
           /\ done[j].error # "AttributeError"
           /\ calls[done[i].payload].check = 2

\* C7: over the deliveries of one (source, messageId), whichever external
\* calls fail, at most one record is appended to the output.
C7_AtMostOneOutput ==
    \A p \in Payloads : OutputsFor(p) <= 1

\* An event whose first call wrote its output and then failed in the
\* outcome update was delivered again, and that call has ended.
C7_Witness ==
    \E i, j \in DOMAIN done :
        /\ After(i, j)
        /\ done[i].payload = done[j].payload
        /\ done[i].error = "DatabaseError"
        /\ OutputsFor(done[i].payload) = 1

\* C8: a handle_message call that raises leaves its worker at queue.get
\* with the queue as it was, and no worker ever ends.
C8_WorkerSurvives ==
    [][ \A w \in Workers :
          ( /\ Len(done') = Len(done) + 1
            /\ done'[Len(done')].worker = w
            /\ done'[Len(done')].result = "failed" )
          => /\ wpc'[w] = "idle"
             /\ queue' = queue ]_vars

\* A worker whose call raised has run a later call to its end.
C8_Witness ==
    \E i, j \in DOMAIN done :
        /\ i < j
        /\ done[i].worker = done[j].worker
        /\ done[i].result = "failed"
        /\ done[j].result = "processed"

\* C9: the queue never holds more than processor_queue_size events; an
\* enqueue call has either returned, with its event put in the queue, or
\* is suspended.
C9_QueueBounded ==
    /\ Len(queue) <= processor_queue_size
    /\ delivered = accepted + Len(putters)
    /\ accepted = Len(queue) + Cardinality(InFlight) + Len(done)

\* An enqueue call is suspended on a full queue.
C9_Witness ==
    /\ putters # <<>>
    /\ Len(queue) = processor_queue_size

\* C10: for a non-empty index answer, check returns similarity = 1 - the
\* first distance and matched_id = the first id, and is_duplicate exactly
\* when that similarity is at least the threshold.
C10_FirstNeighbourDecides ==
    (dpc = "ret" /\ dIn.distances[1] # <<>>)
    => LET r == Val(dOut)
           first == One - dIn.distances[1][1]
       IN  /\ r.similarity = Some(first)
           /\ r.matched_id = Some(dIn.ids[1][1])
           /\ r.is_duplicate <=> first >= duplicate_threshold

\* check has answered on a first neighbour whose similarity is the
\* threshold, followed by a nearer one.
C10_Witness ==
    /\ dpc = "ret"
    /\ dIn.distances[1] = <<One - duplicate_threshold, 0>>
    /\ Val(dOut).is_duplicate
    /\ Val(dOut).similarity = Some(duplicate_threshold)

\* C11: when the index answers with no neighbour, or the query raises, the
\* step that makes the query makes it once, check returns is_duplicate =
\* false with no similarity and no matched id, and handle_message goes on
\* to the index write: the call does not end there.
C11_EmptyAnswerIsUnique ==
    [][\A w \in Workers :
        LET failed == faults' # faults
            empty == /\ ~IsNone(wloc'[w].answer)
                     /\ Val(wloc'[w].answer).distances[1] = <<>>
        IN  (wpc[w] = "query" /\ wpc'[w] # "query" /\ (failed \/ empty))
            => /\ wpc'[w] = "index_add"
               /\ done' = done
               /\ wloc'[w].answer = Some(QueryFailed)
               /\ Val(wloc'[w].dedup).is_duplicate = FALSE
               /\ IsNone(Val(wloc'[w].dedup).similarity)
               /\ IsNone(Val(wloc'[w].dedup).matched_id)
               /\ calls'[Payload(w)].query = calls[Payload(w)].query + 1]_vars

\* A call whose index query raised has gone on to the rewrite.
C11_Witness ==
    \E w \in Workers :
        /\ wpc[w] = "write_output"
        /\ calls[Payload(w)].query_failed = 1
        /\ wloc[w].answer = Some(QueryFailed)

\* C12: a unique event whose index write failed, and for which no other
\* external call failed, still gets its rewrite call and its output record
\* and ends with processed_at set on its stored record.
C12_AddFailureSwallowed ==
    \A i \in DOMAIN done :
        (/\ done[i].created = Some(TRUE)
         /\ calls[done[i].payload].add_failed = 1
         /\ faults = 1)
        => /\ done[i].result = "processed"
           /\ calls[done[i].payload].generate = 1
           /\ OutputsFor(done[i].payload) = 1
           /\ \E r \in RecordsOf(done[i].payload) :
                 /\ HasAttr(r, "processed_at")
                 /\ ~IsNone(r.processed_at)

\* The failures C13 calls retryable: the provider's errors and the HTTP
\* transport's.
BackendFailures ==
    {"openai.APIConnectionError", "openai.APIStatusError",
     "httpx.TransportError", "httpx.HTTPStatusError"}

\* C13: a call of embed or rewrite makes at most 3 attempts; every attempt
\* before the last ended in a retryable backend failure; a success returns
\* at once; an error is propagated when it is not retryable or when it is
\* the third attempt's, and it is the last attempt's error.
C13_BoundedRetry ==
    /\ Len(rTrace) <= 3
    /\ \A i \in 1..(Len(rTrace) - 1) : rTrace[i] \in BackendFailures
    /\ rpc \in {"attempt", "sleep"}
          => /\ \A i \in DOMAIN rTrace : rTrace[i] \in BackendFailures
             /\ Len(rTrace) < 3
    /\ rpc = "returned"
          => /\ rTrace[Len(rTrace)] = "ok"
             /\ Val(rOut).value = "ok"
    /\ rpc = "raised"
          => /\ Val(rOut).value = rTrace[Len(rTrace)]
             /\ Val(rOut).value # "ok"
             /\ Val(rOut).attempt = Len(rTrace)
             /\ Val(rOut).value \in BackendFailures => Len(rTrace) = 3

\* Three attempts failed, the last two differently, and the caller got the
\* third one's error.
C13_Witness ==
    /\ rpc = "raised"
    /\ Len(rTrace) = 3
    /\ rTrace[2] # rTrace[3]
    /\ Val(rOut).value = rTrace[3]

\* C14: no call of handle_message ends in the uniqueness conflict of an
\* insert made by _store_raw_post: the conflict is resolved by fetching the
\* stored row.
C14_ConflictNeverSurfaces ==
    \A i \in DOMAIN done : done[i].error # "IntegrityError"

\* What the run finds not ready: the engine cannot be made, the database
\* cannot be initialised, or the health check of the backend fails.
ClientNotReady ==
    \/ sEnv.engine # "ok"
    \/ sEnv.database # "ok"
    \/ sEnv.provider = "ollama" /\ sEnv.backend # "up"

\* C15: when the database engine is not initialised or the backend's
\* health check fails, main ends by that exception with no worker task
\* created and the listener not started, and no event is enqueued or taken
\* by a worker.
C15_StartupAborts ==
    /\ ClientNotReady
          => /\ sWorkers = 0
             /\ ~sListening
             /\ sEnq = 0
             /\ sHandled = 0
             /\ spc \in {"init_engine", "init_db", "health_check", "aborted"}
    /\ (ClientNotReady /\ spc = "aborted")
          => Val(sError).at \in {"init_engine", "init_db", "health_check"}

\* main has ended at the health check of a backend that is down.
C15_Witness ==
    /\ spc = "aborted"
    /\ Val(sError).at = "health_check"
    /\ sEnv.backend = "down"

\* The text is empty or blank, or holds one of the configured terms when
\* case is ignored.
ToBeDropped(text, terms) ==
    \/ \A i \in DOMAIN text : text[i] = " "
    \/ \E k \in DOMAIN terms : Contains(Lower(terms[k]), Lower(text))

\* C16: a message whose text is empty or blank, or contains a configured
\* term whatever the case, is not enqueued by the listener and neither
\* stored nor embedded by backfill, and no error is raised.
C16_FilteredIsDropped ==
    (fpc = "done" /\ ToBeDropped(TextOf(fMsg), fWords)) => fOut = NoOutcome

OutcomeFields ==
    {"rewritten_text", "is_duplicate", "similarity", "duplicate_of",
     "processed_at"}

\* The stored record r carries a processing timestamp.
Processed(r) == HasAttr(r, "processed_at") /\ ~IsNone(r.processed_at)

\* C17: the call that completes an event's processing writes the outcome
\* fields of its record; a record whose processed_at is set is left as it
\* is by every later step; and no step removes a stored record.
C17_OutcomeWrittenOnce ==
    /\ [](\A i \in DOMAIN done :
            done[i].result \in {"processed", "duplicate"}
            => \E r \in RecordsOf(done[i].payload) : Processed(r))
    /\ [][\A r \in posts :
            /\ \E q \in posts' : q.id = r.id
            /\ Processed(r) => r \in posts']_vars

\* The output file as the sequence of record parts written to it, each
\* with the record it belongs to.
RECURSIVE PartsOf(_)
PartsOf(out) ==
    IF out = <<>> THEN <<>>
    ELSE [k \in DOMAIN Head(out).parts |->
             [part |-> Head(out).parts[k],
              record |-> <<Head(out).channel_name, Head(out).message_id,
                           Head(out).text>>]]
         \o PartsOf(Tail(out))

\* C18: in the output file a header follows a separator (or starts the
\* file), a text follows the header of its own record and a separator the
\* text of its own record: the parts of two records are never interleaved.
C18_RecordsNotInterleaved ==
    LET ps == PartsOf(output)
    IN  \A k \in DOMAIN ps :
          /\ ps[k].part = "header"
                => (k = 1 \/ ps[k - 1].part = "separator")
          /\ ps[k].part = "text"
                => /\ k > 1
                   /\ ps[k - 1].part = "header"
                   /\ ps[k - 1].record = ps[k].record
          /\ ps[k].part = "separator"
                => /\ k > 1
                   /\ ps[k - 1].part = "text"
                   /\ ps[k - 1].record = ps[k].record

\* Two workers, both still in handle_message, have each appended a record.
C18_Witness ==
    /\ \A w \in Workers : wpc[w] = "update_post"
    /\ Len(PartsOf(output)) = 6

\* The events taken from the queue whose handle_message call has not ended.
Taken == accepted - Len(queue) - Len(done)

\* C19: the events taken from the queue and not yet ended are exactly the
\* ones the workers hold, one for each worker not waiting in queue.get, so
\* they are never more than the workers.
C19_OneEventPerWorker ==
    /\ Taken = Cardinality(InFlight)
    /\ Taken <= Cardinality(Workers)
    /\ \A w \in Workers : wpc[w] = "idle" <=> IsNone(wloc[w].payload)

\* Every worker holds an event while another one waits in the queue.
C19_Witness ==
    /\ Taken = Cardinality(Workers)
    /\ queue # <<>>

\* The positions at which handle_message awaits an external capability:
\* the embedding, the index query, the index write, the rewrite.
ExternalCalls == {"embed", "query", "index_add", "generate"}

\* C20: while a worker is inside an external call, every other worker that
\* holds an event or finds one queued can take its next step: it is never
\* made to wait for the suspended worker.
C20_SuspendedWorkerBlocksNobody ==
    \A w \in Workers : \A v \in Workers \ {w} :
        (wpc[w] \in ExternalCalls /\ (wpc[v] # "idle" \/ queue # <<>>))
        => ENABLED WorkerStep(v)

\* One worker is inside the rewrite call of its event; the other has, since
\* that event was taken, ended an event and is storing the next.
C20_Witness ==
    \E w \in Workers : \E v \in Workers \ {w} :
        /\ wpc[w] = "generate"
        /\ wpc[v] = "commit_post"
        /\ \E i \in DOMAIN done : /\ done[i].worker = v
                                   /\ i > wloc[w].started

\* ------------------------------------------------- style profiles
\* The posts a channel has, the latest pLimit of them, and those of the
\* latest whose text is not whitespace only.
AvailablePosts(c) == {r \in pPosts : r.channel_id = c.id}
SampledPosts(c) ==
    {r \in AvailablePosts(c) :
        Cardinality({q \in AvailablePosts(c) : q.created_at > r.created_at})
            < pLimit}
NonBlankSampled(c) ==
    {r \in SampledPosts(c) : \E i \in DOMAIN r.text : r.text[i] # " "}
ClaimedMinimum == IF pLimit \div 3 > 10 THEN pLimit \div 3 ELSE 10
HasEntryByName(c) == c.name \in DOMAIN pCache.by_channel_name
HasEntryById(c) ==
    ~IsNone(c.telegram_id) /\ Val(c.telegram_id) \in DOMAIN pCache.by_channel_id
SampleSizeOf(formatted) == formatted[1][2]

\* C21 as stated: once the profiles are built, a channel with fewer than
\* max(10, limit // 3) posts has no entry, by id or by name, and a channel
\* with exactly that many posts has an entry whose sample size is the
\* number of its posts.
C21_AsStated ==
    ppc # "build" =>
        \A c \in pChannels :
            LET available == Cardinality(AvailablePosts(c))
            IN  /\ available < ClaimedMinimum =>
                    ~HasEntryByName(c) /\ ~HasEntryById(c)
                /\ available = ClaimedMinimum =>
                    /\ HasEntryByName(c)
                    /\ SampleSizeOf(pCache.by_channel_name[c.name]) = available

\* C21, amended: the minimum is asked of the posts fetched, at most limit of
\* them, and the sample size counts the fetched posts whose text is not
\* whitespace only.  A channel with fewer than max(10, limit // 3) fetched
\* posts has no entry by id or by name; a channel with at least that many
\* has an entry exactly when one of them is not blank, by name and, when it
\* has a numeric id, by id, and its sample size is the number of non-blank
\* fetched posts.
C21_ThresholdOnFetched ==
    ppc # "build" =>
        \A c \in pChannels :
            LET fetched == Cardinality(SampledPosts(c))
                kept == Cardinality(NonBlankSampled(c))
            IN  /\ fetched < ClaimedMinimum =>
                    ~HasEntryByName(c) /\ ~HasEntryById(c)
                /\ fetched >= ClaimedMinimum =>
                    /\ HasEntryByName(c) <=> kept > 0
                    /\ HasEntryById(c) <=>
                           kept > 0 /\ ~IsNone(c.telegram_id)
                    /\ HasEntryByName(c) =>
                        SampleSizeOf(pCache.by_channel_name[c.name]) = kept
                    /\ HasEntryById(c) =>
                        pCache.by_channel_id[Val(c.telegram_id)]
                            = pCache.by_channel_name[c.name]

\* A channel with exactly the minimum of posts, all fetched, got an entry
\* of that sample size, next to a channel with too few posts.
C21_Witness ==
    /\ ppc = "built"
    /\ \E c, d \in pChannels :
        /\ Cardinality(AvailablePosts(c)) = ClaimedMinimum
        /\ Cardinality(SampledPosts(c)) = ClaimedMinimum
        /\ HasEntryByName(c) /\ HasEntryById(c)
        /\ SampleSizeOf(pCache.by_channel_name[c.name]) = ClaimedMinimum
        /\ Cardinality(AvailablePosts(d)) < ClaimedMinimum
        /\ ~HasEntryByName(d)

\* The words of a text of ProfileTexts, one sentence each: its letters.
WordCount(text) == Cardinality({i \in DOMAIN text : text[i] = "w"})

RECURSIVE TotalWords(_)
TotalWords(rows) ==
    IF rows = {} THEN 0
    ELSE LET r == CHOOSE x \in rows : TRUE
         IN  WordCount(r.text) + TotalWords(rows \ {r})

\* The sentences with words among the sampled posts, and their words.
SentencesOf(c) == {r \in NonBlankSampled(c) : WordCount(r.text) > 0}
TempoOf(formatted) == formatted[2][2]

\* C22: the tempo of a profile is "short" when the mean number of words per
\* sentence, over all sentences of all its samples, is at most 10, "medium"
\* when it is above 10 and at most 17, "long" when it is above 17.
C22_TempoBuckets ==
    \A c \in pChannels :
        HasEntryByName(c) =>
            LET total == TotalWords(SentencesOf(c))
                n == Cardinality(SentencesOf(c))
                tempo == TempoOf(pCache.by_channel_name[c.name])
            IN  /\ tempo = "short" <=> total <= 10 * n
                /\ tempo = "medium" <=> total > 10 * n /\ total <= 17 * n
                /\ tempo = "long" <=> total > 17 * n

\* A profile of ten sentences with a mean of 10.1 words is "medium".
C22_Witness ==
    \E c \in pChannels :
        /\ HasEntryByName(c)
        /\ Cardinality(SentencesOf(c)) = 10
        /\ TotalWords(SentencesOf(c)) = 101
        /\ TempoOf(pCache.by_channel_name[c.name]) = "medium"

\* C23: get(id, name) returns the profile stored under the numeric id when
\* the id is given and present; otherwise the profile stored under the
\* display name when the name is present; otherwise None.
C23_IdThenNameThenNone ==
    ppc = "got" =>
        LET channel_id == pKey[1]
            channel_name == pKey[2]
            by_id == ~IsNone(channel_id)
                     /\ Val(channel_id) \in DOMAIN pCache.by_channel_id
            by_name == channel_name \in DOMAIN pCache.by_channel_name
        IN  /\ by_id => pGot = Some(pCache.by_channel_id[Val(channel_id)])
            /\ ~by_id /\ by_name =>
                   pGot = Some(pCache.by_channel_name[channel_name])
            /\ ~by_id /\ ~by_name => pGot = None

\* A get whose id and name are both present, under different profiles,
\* returned the id's.
C23_Witness ==
    /\ ppc = "got"
    /\ pKey = <<Some(999), "chan">>
    /\ 999 \in DOMAIN pCache.by_channel_id
    /\ "chan" \in DOMAIN pCache.by_channel_name
    /\ pCache.by_channel_id[999] # pCache.by_channel_name["chan"]
    /\ pGot = Some(pCache.by_channel_id[999])

\* C24: the style-profile lookup is built once, before any worker task
\* exists, and nothing changes it afterwards: the only step that changes it
\* is main()'s build_style_profiles call, made while there is no worker,
\* and no handle_message call adds, removes or changes an entry or runs
\* the profiler.
C24_LookupBuiltOnce ==
    /\ [](sWorkers > 0 =>
            spc \in {"listener_start", "running", "aborted"})
    /\ [][pCache' # pCache =>
            /\ spc = "build_style_profiles"
            /\ sWorkers = 0
            /\ sHandled' = sHandled]_vars

\* A worker has handled an event: the post is stored, the lookup gave the
\* profile built at startup, and the lookup is not what the profiler would
\* build from the store as it is now.
C24_Witness ==
    /\ sHandled > 0
    /\ pCache # NoCache
    /\ pGot = Some(pCache.by_channel_id[123])
    /\ Cardinality(pPosts) > min_samples_floor
    /\ pCache # StyleProfilesOf(pChannels, pPosts, pLimit)

\* The events whose handle_message call ended on the duplicate branch.
JudgedDuplicate(r) ==
    \E i \in DOMAIN done :
        done[i].result = "duplicate" /\ r \in RecordsOf(done[i].payload)

\* C25: the sample a channel's profile is built from holds posts of that
\* channel only, none of them the record of an event judged a duplicate, at
\* most limit of them, the latest first.
C25_SampleOfAcceptedPosts ==
    \A c \in channels, limit \in 1..MaxDeliveries :
        LET sample == PostsQuery(posts, c.id, limit)
        IN  /\ Len(sample) <= limit
            /\ \A k \in DOMAIN sample :
                /\ sample[k].channel_id = c.id
                /\ ~JudgedDuplicate(sample[k])
                /\ \A j \in DOMAIN sample :
                     j < k => sample[j].created_at >= sample[k].created_at
                /\ \A r \in posts :
                     r.channel_id = c.id /\ r.created_at > sample[k].created_at
                     => \E j \in DOMAIN sample : sample[j] = r

\* ------------------------------------------------------- settings
NonEmpty(o) == ~IsNone(o) /\ Val(o) # <<>>
\* The ollama fields as the object has them: given, else the default.
OllamaFieldsSet ==
    \A f \in {"ollama_base_url", "ollama_model", "ollama_embedding_model"} :
        IsNone(cEnv[f]) \/ Val(cEnv[f]) # <<>>
ProviderGiven ==
    IF IsNone(cEnv.llm_provider) THEN OllamaName ELSE Val(cEnv.llm_provider)
Acceptable(provider) ==
    \/ provider = OpenaiName /\ NonEmpty(cEnv.openai_api_key)
    \/ provider = OllamaName /\ OllamaFieldsSet

\* C26 as stated: Settings is constructed only when llm_provider is
\* "openai" with a non-empty API key or "ollama" with non-empty base URL,
\* model and embedding model; every other combination is rejected; without
\* an llm_provider the provider is "ollama".
C26_AsStated ==
    /\ cpc = "constructed" => Acceptable(ProviderGiven)
    /\ cpc = "rejected" => ~Acceptable(ProviderGiven)
    /\ cpc = "constructed" /\ IsNone(cEnv.llm_provider) =>
           Val(cOut).llm_provider = OllamaName

\* C26, amended: the provider that is compared is llm_provider in lower
\* case with the whitespace around it removed ("OpenAI" and " ollama " are
\* accepted); Settings is constructed exactly when that is "openai" with a
\* non-empty API key or "ollama" with non-empty base URL, model and
\* embedding model, every other combination is rejected, and without an
\* llm_provider the provider is "ollama".  The object keeps llm_provider as
\* it was given.
C26_NormalizedProvider ==
    LET given == ProviderGiven
        inner == SelectSeq(given, LAMBDA ch : ch # " ")
        provider == [i \in DOMAIN inner |->
                        IF inner[i] \in {"A", "I", "O"}
                        THEN CHOOSE l \in {"a", "i", "o"} :
                                 <<inner[i], l>> \in
                                     {<<"A", "a">>, <<"I", "i">>, <<"O", "o">>}
                        ELSE inner[i]]
    IN  /\ cpc = "constructed" => Acceptable(provider)
        /\ cpc = "rejected" => ~Acceptable(provider)
        /\ cpc = "constructed" => Val(cOut).llm_provider = given
        /\ cpc = "constructed" /\ IsNone(cEnv.llm_provider) =>
               Val(cOut).llm_provider = OllamaName

\* Settings without an llm_provider was constructed, its provider is
\* "ollama".
C26_Witness ==
    /\ cpc = "constructed"
    /\ IsNone(cEnv.llm_provider)
    /\ Val(cOut).llm_provider = OllamaName

\* ------------------------------------------------- duplicate marks
\* The index document ids of p's event: "<numeric id or name>:<messageId>"
\* under each of the forms the event is delivered in.
DocIdsOf(p) ==
    {DocId(q.channel_name, q.channel_id, q.message_id) :
        q \in {x \in Payloads : SameEvent(p, x)}}

MarkedDuplicate(r) == HasAttr(r, "is_duplicate") /\ r.is_duplicate = TRUE

OnlyFirstWorkerSoFar ==
    /\ \A k \in DOMAIN done : done[k].worker = WorkerOrder[1]
    /\ \A w \in Workers : w # WorkerOrder[1] => wpc[w] = "idle"

\* C29: the queue is first in, first out: it changes only by an item put
\* behind the queued ones or by its first item handed to a worker waiting
\* in get.  The calls of one worker follow each other in the order it took
\* the events, each begun after the one before has ended; while a single
\* worker has taken all events, every call begins after all earlier calls
\* have ended, so calls start and end in the order of the queue.
C29_QueueOrder ==
    /\ [][queue' # queue =>
            \/ \E p \in Payloads : queue' = Append(queue, p)
            \/ /\ queue # <<>>
               /\ queue' = Tail(queue)
               /\ \E w \in Workers :
                    /\ wpc[w] = "idle"
                    /\ wpc'[w] # "idle"
                    /\ wloc'[w].payload = Some(Head(queue))]_vars
    /\ [](\A i, j \in DOMAIN done :
            i < j /\ done[i].worker = done[j].worker =>
                /\ done[j].started >= i
                /\ done[i].started < done[j].started)
    /\ [](OnlyFirstWorkerSoFar =>
            \A i \in DOMAIN done : done[i].started = i - 1)

\* Three calls have ended, two of one worker and one of the other.
C29_Witness ==
    /\ Len(done) = 3
    /\ \E i, j, k \in DOMAIN done :
        /\ i < j
        /\ done[i].worker = done[j].worker
        /\ done[k].worker # done[i].worker

\* ---------------------------------------------------------- progress
\* C30: every event put in the queue is taken from it in the end and its
\* handle_message call comes to an end, by returning or by an exception
\* that _worker logs: again and again, and for good once the source is
\* silent, the queue is empty and as many calls have ended as events were
\* enqueued.
C30_EveryEventEnds ==
    []<>(Len(done) = accepted /\ queue = <<>>)

\* Every delivered event was enqueued and has ended, one of them by an
\* external failure, and nothing is queued or in flight.
C30_Witness ==
    /\ accepted = LiveDeliveries
    /\ Len(done) = LiveDeliveries
    /\ queue = <<>>
    /\ \A w \in Workers : wpc[w] = "idle"
    /\ \E i \in DOMAIN done : done[i].error \in ExternalErrors

\* ------------------------------------------------ the 24-hour window
\* The index entries with the given document id.
EntriesWithId(doc_id) ==
    {i \in 1..Len(index) : index[i].id = doc_id}

\* The worker holds the answer of the dedup query of its event.
HasAnswer(w) == wpc[w] \in {"mark_duplicate", "index_add"}

\* The entry is older than the window of a check made now.
OlderThanWindow(i) == index[i].metadata.created_at < clock - DedupWindow

\* C31: the dedup query considers only index entries created within the
\* trailing 24 hours before the check, and at most the 5 nearest of them;
\* an entry older than 24 hours never causes an event to be marked
\* duplicate.
C31_OnlyTrailingWindow ==
    \A w \in Workers :
        HasAnswer(w) =>
            LET ids == Val(Loc(w).answer).ids[1]
            IN  /\ Len(ids) <= n_results
                /\ \A k \in 1..Len(ids) :
                       \E i \in EntriesWithId(ids[k]) : ~OlderThanWindow(i)
                /\ Val(Loc(w).dedup).is_duplicate =>
                       \E i \in EntriesWithId(Val(Val(Loc(w).dedup).matched_id)) :
                           ~OlderThanWindow(i)

\* An event with the text of an entry older than the window has been
\* checked, and was judged unique.
C31_Witness ==
    \E w \in Workers :
        /\ wpc[w] = "index_add"
        /\ ~Val(Loc(w).dedup).is_duplicate
        /\ \E i \in 1..Len(index) :
               /\ OlderThanWindow(i)
               /\ index[i].document = Loc(w).text

\* ------------------------------------------------ one embedding per run
\* The embed calls made so far, over all events.
TotalChecks == calls[P1].check + calls[P2].check + calls[P3].check

\* The workers whose step this is the embed call of Deduplicator.check.
LeavingEmbed == {w \in Workers : wpc[w] = "embed" /\ wpc'[w] # "embed"}

\* C32: Deduplicator.check returns the embedding it computed whether the
\* decision is duplicate or not, and one run of the workflow computes the
\* embedding exactly once: embed is called only by the check's first step,
\* once, a run reaches that step at most once, and the vector written to the
\* index on the unique path is the one the check returned.
C32_OneEmbeddingPerRun ==
    [][/\ TotalChecks' = TotalChecks + Cardinality(LeavingEmbed)
       /\ \A w \in Workers :
            /\ wpc'[w] = "embed" /\ wpc[w] # "embed" => IsNone(wloc[w].dedup)
            /\ wpc[w] = "embed" => wpc'[w] \in {"embed", "query", "idle"}
            /\ HasAnswer(w)' =>
                   Val(wloc'[w].dedup).embedding = Embed(wloc'[w].text)
            /\ wpc[w] = "index_add" /\ wpc'[w] # wpc[w] /\ index' # index =>
                   /\ Len(index') = Len(index) + 1
                   /\ index'[Len(index')].embedding
                          = Val(wloc[w].dedup).embedding
      ]_vars

\* A worker holds a duplicate decision whose embedding is the one of its
\* text, equal to the vector an earlier unique event wrote to the index,
\* after one embed call for each of the two events.
C32_Witness ==
    \E w \in Workers :
        /\ wpc[w] = "mark_duplicate"
        /\ Val(Loc(w).dedup).is_duplicate
        /\ Val(Loc(w).dedup).embedding = Embed(Loc(w).text)
        /\ \E i \in 1..Len(index) :
               /\ index[i].embedding = Val(Loc(w).dedup).embedding
               /\ index[i].id = Val(Val(Loc(w).dedup).matched_id)
        /\ calls[Payload(w)].check = 1
        /\ TotalChecks = 2

\* ------------------------------------------------ truncation comes first
\* The raw text of the message the backfill log entry is about.
RawTextOf(message_id) ==
    Codes(TextOf(bMsgs[CHOOSE i \in DOMAIN bMsgs : MessageId(i) = message_id]))

FirstChars(text) == SubSeq(text, 1, IF Len(text) < max_chars THEN Len(text)
                                     ELSE max_chars)

\* What a worker holds of its call is made from the first max_chars
\* characters of the raw text of its event.
WorkerTextsTruncated(w) ==
    LET cut == FirstChars(Payload(w).text)
    IN  /\ Loc(w).text = cut
        /\ Loc(w).created = Some(TRUE) => Val(Loc(w).post).text = cut
        /\ ~IsNone(Loc(w).dedup) => Val(Loc(w).dedup).embedding = Embed(cut)
        /\ ~IsNone(Loc(w).rewritten) => Val(Loc(w).rewritten)[2] = cut

\* C33: the text is truncated to max_chars before anything else: the text
\* stored in the record, passed to the dedup check, written to the index and
\* passed to the rewriter is the first max_chars characters of the raw text,
\* and no stored text is longer than max_chars, in the live workflow and in
\* backfill.
C33_TruncatedFirst ==
    /\ \A r \in posts : Len(r.text) <= max_chars
    /\ \A i \in 1..Len(index) :
           /\ Len(index[i].document) <= max_chars
           /\ \E p \in Payloads :
                  /\ index[i].id = DocId(p.channel_name, p.channel_id,
                                         p.message_id)
                  /\ index[i].document = FirstChars(p.text)
                  /\ index[i].embedding = Embed(FirstChars(p.text))
    /\ \A w \in InFlight : WorkerTextsTruncated(w)
    /\ \A k \in 1..Len(bLog) :
           bLog[k].text = FirstChars(RawTextOf(bLog[k].message_id))

\* Backfill has stored a text longer than max_chars, cut, and a worker of
\* the live service holds the rewrite of an event whose raw text is longer
\* than max_chars, its index entry written.
C33_Witness ==
    /\ \E k \in 1..Len(bLog) :
           /\ bLog[k].op = "store_post"
           /\ Len(RawTextOf(bLog[k].message_id)) > max_chars
           /\ \E r \in posts : /\ r.telegram_msg_id = bLog[k].message_id
                                /\ r.text = bLog[k].text
    /\ \E w \in InFlight :
           /\ Len(Payload(w).text) > max_chars
           /\ ~IsNone(Loc(w).rewritten)
           /\ \E i \in 1..Len(index) :
                  index[i].document = FirstChars(Payload(w).text)

\* ------------------------------------------------------------- backfill
\* The document id backfill builds for a message.
BackfillDocId(message_id) ==
    DocId(EntityChannelName, EntityChannelId, message_id)

\* The calls the run is to make for the messages from position i on: for
\* each message that passes the filters the post stored, then, with
\* store_embeddings, one embed and one upsert.
RECURSIVE ExpectedCalls(_)
ExpectedCalls(i) ==
    IF i > Len(bMsgs) THEN <<>>
    ELSE LET text == TextOf(bMsgs[i])
             cut == FirstChars(Codes(text))
             mine ==
                 IF Dropped(text, BackfillStopWords) THEN <<>>
                 ELSE <<BackfillCall("store_post", MessageId(i), cut, NoDocId)>>
                      \o (IF bEmbeddings
                          THEN <<BackfillCall("embed", MessageId(i), cut,
                                              NoDocId),
                                 BackfillCall("upsert", MessageId(i), cut,
                                              BackfillDocId(MessageId(i)))>>
                          ELSE <<>>)
         IN  mine \o ExpectedCalls(i + 1)

\* The run ended, and neither the database nor the embedding backend
\* failed.
BackfillRan ==
    /\ BackfillEnded
    /\ bError \notin {Some("IntegrityError"), Some("BackendError")}

\* C37: backfill processes the messages in the order delivered and, for each
\* message that passes the filters, stores the post first; it then calls
\* Embed and the index upsert exactly once for that message, with document
\* id "<numeric id or name>:<messageId>", when store_embeddings is true, and
\* makes no Embed and no index call when store_embeddings is false.
C37_StoreThenEmbedAndUpsert ==
    BackfillRan => bLog = ExpectedCalls(1)

\* The embed call of a message has returned and the upsert that follows it
\* is over.
PastUpsert(k) ==
    /\ bLog[k].op = "embed"
    /\ ~(bpc = "upsert" /\ k = Len(bLog))

\* C38: VectorStore offers an upsert(doc_id, embedding, document, metadata)
\* that issues one upsert to the collection with the id, embedding, document
\* and metadata given: the call does not fail and the index then holds one
\* entry for the document id, also when the id was written before.
C38_UpsertWritesOneEntry ==
    \A k \in 1..Len(bLog) :
        PastUpsert(k) =>
            /\ bError # Some("AttributeError")
            /\ Cardinality(EntriesWithId(BackfillDocId(bLog[k].message_id)))
                   = 1

\* -------------------------------------------------------- the worker pool
\* C35: calling Processor.start any number of times creates exactly
\* processor_workers worker tasks in total: once start was called the pool
\* holds processor_workers tasks, all created by the first call, however
\* many calls followed.
C35_PoolSizeFixed ==
    kStarts >= 1 =>
        /\ Len(kWorkers) = kSetting
        /\ \A i \in 1..Len(kWorkers) : kWorkers[i] = 1

\* start was called again on a processor that has its workers, with events
\* queued.
C35_Witness ==
    /\ kStarts >= 2
    /\ kSetting >= 1
    /\ Len(kWorkers) = kSetting
    /\ queue # <<>>

\* ---------------------------------------------------------- lead labels
\* The first line of a sample, as _lead_label reads it.
LeadLine(text) == StripWs(FirstLine(StripWs(text)))

\* The place of the first colon of a line, counted from 1; 0 without one.
FirstColonAt(line) == Find(line, ":") + 1

BeforeColon(line) == StripWs(SubSeq(line, 1, FirstColonAt(line) - 1))

\* C36: a lead label is extracted from a sample exactly when its first line
\* contains a colon within its first 15 characters, the text before the
\* colon is non-empty and has at most 3 words; a first line whose first
\* colon is the 16th character or later yields no label.
C36_LabelWithinFifteen ==
    lpc = "returned" =>
        LET line == LeadLine(lText)
            at == FirstColonAt(line)
        IN  /\ ~IsNone(lOut) <=>
                   /\ at >= 1
                   /\ at <= 15
                   /\ BeforeColon(line) # <<>>
                   /\ SplitCount(BeforeColon(line)) <= 3
            /\ at >= 16 => IsNone(lOut)
            /\ ~IsNone(lOut) => Val(lOut) = BeforeColon(line)

\* ------------------------------------------- the text a rewrite is made of
\* The call found the record of its event stored, with another text than
\* the one it was delivered.
RedeliveredWithOtherText(d) ==
    /\ d.created = Some(FALSE)
    /\ \E r \in RecordsOf(d.payload) : r.text # FirstChars(d.payload.text)

\* What the worker's call has dedup-checked and rewritten so far was made
\* of the text of the record it holds.
UsesStoredText(w) ==
    LET stored == Val(Loc(w).post).text
    IN  /\ ~IsNone(Loc(w).dedup) =>
               Val(Loc(w).dedup).embedding = Embed(stored)
        /\ ~IsNone(Loc(w).rewritten) => Val(Loc(w).rewritten)[2] = stored

\* C34: a rewritten text is produced from the stored text of its record:
\* when an event is redelivered with a different text for the same (source,
\* messageId) while processedAt is unset (as it is for every record), the
\* call goes through the workflow, and the text it dedup-checks, indexes
\* and rewrites is the stored record's.
C34_RewriteFromStoredText ==
    /\ \A w \in InFlight : ~IsNone(Loc(w).post) => UsesStoredText(w)
    /\ \A k \in DOMAIN done :
           RedeliveredWithOtherText(done[k]) => done[k].error = "none"
====
